---- MODULE Spec2Model ----
(***************************************************************************)
(* Construction tracker: the entity store (projects, material entries,     *)
(* labor entries, receipts, photos, budget alerts, the activity log and    *)
(* the materials of a project template) and the request handlers of        *)
(* tracker/views.py and labor/views.py that write it, one action per       *)
(* handler.  Requests run one after another; each action is one whole      *)
(* request.  The store commits every write as it is made (Django's         *)
(* autocommit), so a handler that raises keeps the writes it made before.  *)
(* Four machines let requests overlap.  In LaborRaceSpec a labor request   *)
(* is validated in one step, waits in pending, and saves in a later step.  *)
(* In ReceiptRaceSpec, AlertRaceSpec and FlagRaceSpec a request in pending *)
(* takes one store statement (a read or a write) per step.                 *)
(*                                                                         *)
(* The dashboard view is an action that computes its monthly_spending      *)
(* context from the store.  The management commands that load the          *)
(* reference tables (categories, units, the material catalog) are actions  *)
(* on files whose lines are sequences of characters, so that stripping,    *)
(* splitting and the number conversion are computed as the commands do.    *)
(*                                                                         *)
(* Money is in whole currency units, quantities in hundredths of a unit;   *)
(* a percentage is kept as an exact quotient and, once stored in a         *)
(* BudgetAlert, in hundredths of a percent.                                *)
(*                                                                         *)
(* The views build their log and flash texts from material.category,       *)
(* which tracker/models.py does not declare; texts are not modelled and    *)
(* the relation is taken to be there, so that the handlers run to the      *)
(* end as they are written.  A row carries the columns that the modelled   *)
(* code reads or that a property speaks of.                                *)
(*                                                                         *)
(* response is what the last request answered: "success" (the redirect or  *)
(* the success JSON), "rejected" (the form shown again with its errors, an *)
(* error message or the failure JSON) or "error" (an exception left the    *)
(* view).  A request that is rejected writes nothing.                      *)
(***************************************************************************)
EXTENDS Integers, FiniteSets, Sequences, Bags, TLC

\* ---------------------------------------------------------------- bounds
MaxMaterials == 1
MaxLabor     == 2
MaxReceipts  == 4
MaxLog       == 2
MaxProjects  == 2
MaxPhotos    == 1
MaxPending   == 2
MaxTemplateMaterials == 1
MaxEntries   == 2
MaxRows      == 3

\* ---------------------------------------------------------- input values
BudgetInputs   == {-100, 0, 80, 800, 850, 1000}
ProjectBudgetInputs == {-100, 0, 1000}
CostInputs     == {-100, 0, 800}
QuantityInputs == {0, 100}
UsageQuantityInputs == {0, 100, 200}
TemplateQuantityInputs == {-100, 100}
UsedInputs     == {-100, 0, 100, 200}
Categories     == {"mason"}
WorkDates      == {1, 2}
WorkerInputs   == {0, 2}
RateInputs     == {-100, 0, 100}
AlertTypes     == {"warning", "critical", "exceeded"}
DateInputs     == {1, 2}
DashboardDates == {105, 120, 203}
DashboardCosts == {0, 100}
DashboardRates == {0, 100}

\* The lines of a category file: key | name and key , name, a line with
\* blanks around its fields that repeats a key, a line without a separator,
\* a line without a name, a comment
CategoryLines  == {<<"a", "|", "x">>, <<"b", ",", "y">>,
                   <<" ", "a", " ", "|", "z">>, <<"c">>, <<"c", "|">>,
                   <<"#", "a">>}
\* The rows of a category sheet (<<>> is an empty cell) and its header row
CategoryRows   == {<<<<"a">>, <<"x">>>>, <<<<"b">>, <<"y">>>>,
                   <<<<"a">>, <<"z">>>>, <<<<"c">>, <<>>>>}
CategoryHeader == <<<<"k">>, <<"n">>>>

\* The lines of the files that load the material catalog: a category and a
\* line without a separator; a unit with its abbreviation and a line with a
\* name only; catalog lines category | description | unit | cost: complete,
\* without a cost, with too few fields, of an unknown category, and with a
\* cost that is not a number
CatalogCategoryLines == {<<"a", "|", "x">>, <<"c">>}
UnitLines      == {<<"u", ",", "k">>, <<"v">>}
MaterialLines  == {<<"a", "|", "d", "|", "u", "|", "5">>,
                   <<"a", "|", "e", "|", "u">>,
                   <<"a", "|", "d">>,
                   <<"q", "|", "d", "|", "u", "|", "5">>,
                   <<"a", "|", "f", "|", "u", "|", "x">>}

VARIABLES
    projects,   \* Project rows:       [id, budget]
    materials,  \* MaterialEntry rows: [id, project, cost, quantity, quantity_used, has_receipt]
    labor,      \* LaborEntry rows:    [id, project, category, work_date, number_of_workers, rate_per_worker_per_day]
    alerts,     \* BudgetAlert rows:   [project, alert_type, percentage, is_read], a bag:
                \*                     rows that differ only in their key are copies
    receipts,   \* Receipt rows:       [id, material_entry, is_primary, uploaded_at]
    photos,     \* ProjectPhoto rows:  [id, project]
    activity_log, \* ActivityLog rows: [project, action, related_material], a bag
                \*                     (related_material 0 is NULL)
    template_materials, \* TemplateMaterial rows of the one project template:
                \*                     [id, estimated_quantity, estimated_cost]
    pending,    \* the requests in flight.  Labor requests that have validated
                \*                     their form and not yet saved: [id, row];
                \*                     in the race machines: [id, view, pc, row, value]
    response,   \* the answer of the last request
    seq,        \* the next primary key of each table
    monthly_spending,    \* context['monthly_spending'] of the last dashboard
                \*                     request: a sequence of [month, material_cost, labor_cost]
    material_categories, \* MaterialCategory rows: [key, name]
    labor_categories,    \* LaborCategory rows:    [key, name]
    material_units,      \* MaterialUnit rows:     [name, abbreviation]
    material_catalog,    \* MaterialCatalog rows:  [category, description, default_unit, default_cost]
    summary     \* the counts that the last bulk load command printed:
                \*                     [created, skipped]

\* The reference tables and what the bulk load commands report
bulk_load == <<material_categories, labor_categories, material_units,
               material_catalog, summary>>

vars == <<projects, materials, labor, alerts, receipts, photos, activity_log,
          template_materials, pending, response, seq, monthly_spending, bulk_load>>

\* ------------------------------------------------------------ aggregation

RECURSIVE SumCost(_)
\* Sum('cost') over MaterialEntry rows
SumCost(rows) ==
    IF rows = {} THEN 0
    ELSE LET r == CHOOSE x \in rows : TRUE IN r.cost + SumCost(rows \ {r})

\* aggregate(total=Sum('cost'))['total']: None (here <<>>) over no rows
AggregateSumCost(rows) ==
    IF rows = {} THEN <<>> ELSE <<SumCost(rows)>>

material_entries(p, mats) == {m \in mats : m.project = p.id}
labor_entries(p, labs)    == {l \in labs : l.project = p.id}
budget_alerts(p, als)     == {a \in BagToSet(als) : a.project = p.id}

\* Project.total_spent
total_spent(p, mats) ==
    LET total == AggregateSumCost(material_entries(p, mats))
    IN  IF total = <<>> \/ total[1] = 0 THEN 0 ELSE total[1]

\* LaborEntry.total_cost
total_cost(l) == l.number_of_workers * l.rate_per_worker_per_day

RECURSIVE SumTotalCost(_)
\* Sum(F('number_of_workers') * F('rate_per_worker_per_day')) over LaborEntry rows
SumTotalCost(rows) ==
    IF rows = {} THEN 0
    ELSE LET r == CHOOSE x \in rows : TRUE IN total_cost(r) + SumTotalCost(rows \ {r})

\* MaterialEntry.quantity_remaining
quantity_remaining(m) == m.quantity - m.quantity_used

\* MaterialEntry.is_depleted
is_depleted(m) == m.quantity_used >= m.quantity

\* A Decimal result: the quotient num/den (den > 0), or a raised
\* ZeroDivisionError.  Decimal rounds a quotient to 28 digits; amounts have at
\* most 12 digits, so no comparison with a whole number is changed by that.
Dec(n, d) == [raised |-> FALSE, num |-> n, den |-> d]
Raised    == [raised |-> TRUE, num |-> 0, den |-> 1]

\* Decimal.__truediv__: raises on a zero divisor
DecimalDivide(a, b) ==
    IF b = 0 THEN Raised
    ELSE IF b < 0 THEN Dec(-a, -b) ELSE Dec(a, b)

\* Decimal.__mul__ by an integer
DecimalTimes(q, k) == IF q.raised THEN q ELSE Dec(q.num * k, q.den)

\* A comparison of the quotient's numerator alone against the integer
DecimalGE_numerator(q, k) == q.num >= k

\* Decimal.__ge__ against an integer
DecimalGE(q, k) == q.num >= k * q.den

\* budget_utilization_percentage without its zero-budget guard
budget_utilization_percentage_unguarded(p, mats) ==
    DecimalTimes(DecimalDivide(total_spent(p, mats), p.budget), 100)

\* Project.budget_utilization_percentage
budget_utilization_percentage(p, mats) ==
    IF p.budget = 0 THEN Dec(0, 1)
    ELSE DecimalTimes(DecimalDivide(total_spent(p, mats), p.budget), 100)

\* BudgetAlert.percentage, DecimalField(max_digits=5, decimal_places=2): the
\* value is quantized to hundredths (round half even) when it is written
Quantize2(q) ==
    LET h == (q.num * 100) \div q.den
        r == (q.num * 100) % q.den
    IN  IF 2 * r > q.den THEN h + 1
        ELSE IF 2 * r < q.den THEN h
        ELSE IF h % 2 = 0 THEN h ELSE h + 1

\* ... and the write raises when the quantized value has more than 5 digits
FitsPercentage(q) ==
    LET h == Quantize2(q) IN h < 100000 /\ h > -100000

\* --------------------------------------------------------- budget alerts

\* BudgetAlert.objects.create(project, alert_type, percentage, message)
BudgetAlert_create(p, t, percentage, als) ==
    IF FitsPercentage(percentage)
    THEN [alerts |-> als (+) SetToBag({[project |-> p.id, alert_type |-> t,
                                        percentage |-> Quantize2(percentage),
                                        is_read |-> FALSE]}),
          raised |-> FALSE]
    ELSE [alerts |-> als, raised |-> TRUE]

\* project.budget_alerts.filter(alert_type=t).exists()
alert_exists(p, t, als) == \E a \in budget_alerts(p, als) : a.alert_type = t

\* check_budget_alerts without the .exists() tests
check_budget_alerts_no_exists(p, mats, als) ==
    LET percentage == budget_utilization_percentage(p, mats)
    IN  IF percentage.raised THEN [alerts |-> als, raised |-> TRUE]
        ELSE IF DecimalGE(percentage, 100)
             THEN BudgetAlert_create(p, "exceeded", percentage, als)
        ELSE IF DecimalGE(percentage, 90)
             THEN BudgetAlert_create(p, "critical", percentage, als)
        ELSE IF DecimalGE(percentage, 75)
             THEN BudgetAlert_create(p, "warning", percentage, als)
        ELSE [alerts |-> als, raised |-> FALSE]

\* check_budget_alerts(project): the alert table it leaves, and whether it raised
check_budget_alerts(p, mats, als) ==
    LET percentage == budget_utilization_percentage(p, mats)
    IN  IF percentage.raised THEN [alerts |-> als, raised |-> TRUE]
        ELSE IF DecimalGE(percentage, 100) /\ ~alert_exists(p, "exceeded", als)
             THEN BudgetAlert_create(p, "exceeded", percentage, als)
        ELSE IF DecimalGE(percentage, 90) /\ ~alert_exists(p, "critical", als)
             THEN BudgetAlert_create(p, "critical", percentage, als)
        ELSE IF DecimalGE(percentage, 75) /\ ~alert_exists(p, "warning", als)
             THEN BudgetAlert_create(p, "warning", percentage, als)
        ELSE [alerts |-> als, raised |-> FALSE]

\* ------------------------------------------------------------- validation

\* ProjectForm.is_valid with the field validators only
ProjectForm_is_valid_no_clean(budget, start_date, end_date) ==
    budget >= 0

\* ProjectForm.is_valid: Project.budget carries MinValueValidator(0.00), then
\* clean(); end_date 0 is a blank end date
ProjectForm_is_valid(budget, start_date, end_date) ==
    /\ budget >= 0
    /\ ~(start_date # 0 /\ end_date # 0 /\ end_date < start_date)

\* MaterialEntryForm.is_valid with the field validators only
MaterialEntryForm_is_valid_no_clean(cost, quantity, quantity_used) ==
    /\ quantity >= 1
    /\ quantity_used >= 0
    /\ cost >= 0

\* MaterialEntryForm.is_valid: the field validators, then clean()
MaterialEntryForm_is_valid(cost, quantity, quantity_used) ==
    /\ quantity >= 1
    /\ quantity_used >= 0
    /\ cost >= 0
    /\ ~(quantity # 0 /\ quantity_used # 0 /\ quantity_used > quantity)

\* LaborEntryForm.is_valid: the field validators, then clean()
LaborEntryForm_is_valid(workers, rate) ==
    /\ workers >= 1
    /\ rate >= 0
    /\ ~(workers # 0 /\ rate # 0 /\ rate <= 0)

\* A store without the unique_together constraint
labor_unique_unconstrained(rows, pid, category, work_date) == TRUE

\* unique_together = ('project', 'category', 'work_date'), enforced by the
\* store when the row is written (the form leaves 'project' out of its check)
labor_unique(rows, pid, category, work_date) ==
    ~\E l \in rows : l.project = pid /\ l.category = category /\ l.work_date = work_date

\* LaborEntry.save(): UPDATE by pk, INSERT when no row has the pk; the store
\* raises IntegrityError on a second row of the same key or a missing project
LaborEntry_save(row, labs, projs) ==
    LET others == {l \in labs : l.id # row.id}
    IN  IF /\ labor_unique(others, row.project, row.category, row.work_date)
           /\ \E p \in projs : p.id = row.project
        THEN [labor |-> others \cup {row}, raised |-> FALSE]
        ELSE [labor |-> labs, raised |-> TRUE]

\* ---------------------------------------------------------------- requests

Bump(table) == [seq EXCEPT ![table] = @ + 1]

\* get_object_or_404(Project, pk=...) / material.project
ProjectOf(pid) == CHOOSE p \in projects : p.id = pid

\* ActivityLog.objects.create(project, user, action, description, related_material)
ActivityLog_create(pid, action, mid, log) ==
    log (+) SetToBag({[project |-> pid, action |-> action, related_material |-> mid]})

\* A store whose related_material is on_delete=CASCADE
SetNull_as_cascade(mid, log) ==
    [t \in {r \in BagToSet(log) : r.related_material # mid} |-> CopiesIn(t, log)]

\* ActivityLog.related_material is on_delete=SET_NULL: what deleting material
\* mid does to the log rows that point to it
SetNull(mid, log) ==
    LET target(r) == IF r.related_material = mid
                     THEN [r EXCEPT !.related_material = 0] ELSE r
        rows      == BagToSet(log)
        from(t)   == [t EXCEPT !.related_material = mid]
    IN  [t \in {target(r) : r \in rows} |->
            (IF t \in rows THEN CopiesIn(t, log) ELSE 0)
          + (IF t.related_material = 0 /\ from(t) \in rows
             THEN CopiesIn(from(t), log) ELSE 0)]

\* project_create (POST)
project_create(budget, start_date, end_date) ==
    /\ seq.project <= MaxProjects
    /\ IF ProjectForm_is_valid(budget, start_date, end_date)
       THEN /\ projects' = projects \cup {[id |-> seq.project, budget |-> budget]}
            /\ seq' = Bump("project")
            /\ response' = "success"
       ELSE /\ response' = "rejected"
            /\ UNCHANGED <<projects, seq>>
    /\ UNCHANGED <<materials, labor, alerts, receipts, photos, activity_log, pending, template_materials>>
    /\ UNCHANGED <<monthly_spending, bulk_load>>

\* project_update (POST)
project_update(p, budget, start_date, end_date) ==
    /\ p \in projects
    /\ IF ProjectForm_is_valid(budget, start_date, end_date)
       THEN /\ projects' = (projects \ {p}) \cup {[p EXCEPT !.budget = budget]}
            /\ response' = "success"
       ELSE /\ response' = "rejected"
            /\ UNCHANGED projects
    /\ UNCHANGED <<materials, labor, alerts, receipts, photos, activity_log,
                   pending, template_materials, seq>>
    /\ UNCHANGED <<monthly_spending, bulk_load>>

\* project_delete on a store that cascades to no other table
project_delete_no_cascade(p) ==
    /\ p \in projects
    /\ projects' = projects \ {p}
    /\ response' = "success"
    /\ UNCHANGED <<materials, receipts, labor, photos, alerts, activity_log,
                   pending, template_materials, seq>>
    /\ UNCHANGED <<monthly_spending, bulk_load>>

\* project_delete (POST): the store cascades to every row owned by the project
\* (the rows are removed by the collector, no delete() method runs on them)
project_delete(p) ==
    /\ p \in projects
    /\ projects' = projects \ {p}
    /\ materials' = {m \in materials : m.project # p.id}
    /\ receipts' = {r \in receipts :
                      \A m \in materials : m.id = r.material_entry => m.project # p.id}
    /\ labor' = {l \in labor : l.project # p.id}
    /\ photos' = {ph \in photos : ph.project # p.id}
    /\ alerts' = [a \in {x \in BagToSet(alerts) : x.project # p.id} |-> CopiesIn(a, alerts)]
    /\ activity_log' = [a \in {x \in BagToSet(activity_log) : x.project # p.id}
                           |-> CopiesIn(a, activity_log)]
    /\ response' = "success"
    /\ UNCHANGED <<pending, template_materials, seq>>
    /\ UNCHANGED <<monthly_spending, bulk_load>>

\* template_add_material (POST): TemplateMaterialForm has no validator on
\* estimated_quantity or estimated_cost
template_add_material(estimated_quantity, estimated_cost) ==
    /\ seq.template_material <= MaxTemplateMaterials
    /\ template_materials' = template_materials \cup
                               {[id |-> seq.template_material,
                                 estimated_quantity |-> estimated_quantity,
                                 estimated_cost |-> estimated_cost]}
    /\ seq' = Bump("template_material")
    /\ response' = "success"
    /\ UNCHANGED <<projects, materials, labor, alerts, receipts, photos,
                   activity_log, pending>>
    /\ UNCHANGED <<monthly_spending, bulk_load>>

\* create_project_from_template that ends with check_budget_alerts(project)
create_project_from_template_checks_alerts(budget, start_date) ==
    /\ seq.project <= MaxProjects
    /\ seq.material + Cardinality(template_materials) - 1 <= MaxMaterials
    /\ seq.activity <= MaxLog
    /\ projects' = projects \cup {[id |-> seq.project, budget |-> budget]}
    /\ materials' = materials \cup
          {[id |-> seq.material
                     + Cardinality({o \in template_materials : o.id < tm.id}),
            project |-> seq.project,
            cost |-> tm.estimated_cost, quantity |-> tm.estimated_quantity,
            quantity_used |-> 0, has_receipt |-> FALSE] : tm \in template_materials}
    /\ activity_log' = ActivityLog_create(seq.project, "project_created", 0, activity_log)
    /\ seq' = [seq EXCEPT !.project = @ + 1,
                          !.material = @ + Cardinality(template_materials),
                          !.activity = @ + 1]
    /\ alerts' = check_budget_alerts([id |-> seq.project, budget |-> budget],
                                     materials', alerts).alerts
    /\ response' = "success"
    /\ UNCHANGED <<labor, receipts, photos, template_materials, pending>>
    /\ UNCHANGED <<monthly_spending, bulk_load>>

\* create_project_from_template (POST): CreateProjectFromTemplateForm.budget
\* is a plain DecimalField; Project.objects.create and
\* MaterialEntry.objects.create run no validator.  The template's materials
\* are copied in the order of their keys
create_project_from_template(budget, start_date) ==
    /\ seq.project <= MaxProjects
    /\ seq.material + Cardinality(template_materials) - 1 <= MaxMaterials
    /\ seq.activity <= MaxLog
    /\ projects' = projects \cup {[id |-> seq.project, budget |-> budget]}
    /\ materials' = materials \cup
          {[id |-> seq.material
                     + Cardinality({o \in template_materials : o.id < tm.id}),
            project |-> seq.project,
            cost |-> tm.estimated_cost, quantity |-> tm.estimated_quantity,
            quantity_used |-> 0, has_receipt |-> FALSE] : tm \in template_materials}
    /\ activity_log' = ActivityLog_create(seq.project, "project_created", 0, activity_log)
    /\ seq' = [seq EXCEPT !.project = @ + 1,
                          !.material = @ + Cardinality(template_materials),
                          !.activity = @ + 1]
    /\ response' = "success"
    /\ UNCHANGED <<labor, alerts, receipts, photos, template_materials, pending>>
    /\ UNCHANGED <<monthly_spending, bulk_load>>

\* The tail of material_create and material_update once the row is written:
\* ActivityLog.objects.create(...), then check_budget_alerts(project); a raise
\* ends the request with the rows written so far kept
AfterMaterialWrite(p, mats, action, mid, nextSeq) ==
    LET checked == check_budget_alerts(p, mats, alerts)
    IN  /\ materials' = mats
        /\ activity_log' = ActivityLog_create(p.id, action, mid, activity_log)
        /\ alerts' = checked.alerts
        /\ response' = IF checked.raised THEN "error" ELSE "success"
        /\ seq' = [nextSeq EXCEPT !.activity = @ + 1]

\* material_create (POST)
material_create(p, cost, quantity, quantity_used) ==
    /\ p \in projects
    /\ seq.material <= MaxMaterials
    /\ seq.activity <= MaxLog
    /\ IF MaterialEntryForm_is_valid(cost, quantity, quantity_used)
       THEN AfterMaterialWrite(p,
               materials \cup {[id |-> seq.material, project |-> p.id,
                                cost |-> cost, quantity |-> quantity,
                                quantity_used |-> quantity_used,
                                has_receipt |-> FALSE]},
               "material_added", seq.material, Bump("material"))
       ELSE /\ response' = "rejected"
            /\ UNCHANGED <<materials, activity_log, alerts, seq>>
    /\ UNCHANGED <<projects, labor, receipts, photos, pending, template_materials>>
    /\ UNCHANGED <<monthly_spending, bulk_load>>

\* material_update (POST)
material_update(m, cost, quantity, quantity_used) ==
    /\ m \in materials
    /\ seq.activity <= MaxLog
    /\ IF MaterialEntryForm_is_valid(cost, quantity, quantity_used)
       THEN AfterMaterialWrite(ProjectOf(m.project),
               (materials \ {m}) \cup {[m EXCEPT !.cost = cost,
                                                 !.quantity = quantity,
                                                 !.quantity_used = quantity_used]},
               "material_updated", m.id, seq)
       ELSE /\ response' = "rejected"
            /\ UNCHANGED <<materials, activity_log, alerts, seq>>
    /\ UNCHANGED <<projects, labor, receipts, photos, pending, template_materials>>
    /\ UNCHANGED <<monthly_spending, bulk_load>>

\* material_delete that also drops the alerts of the material's project
material_delete_clears_alerts(m) ==
    /\ m \in materials
    /\ seq.activity <= MaxLog
    /\ activity_log' = SetNull(m.id, ActivityLog_create(m.project, "material_deleted",
                                                        0, activity_log))
    /\ materials' = materials \ {m}
    /\ receipts' = {r \in receipts : r.material_entry # m.id}
    /\ alerts' = [a \in {x \in BagToSet(alerts) : x.project # m.project}
                     |-> CopiesIn(a, alerts)]
    /\ seq' = Bump("activity")
    /\ response' = "success"
    /\ UNCHANGED <<projects, labor, photos, pending, template_materials>>
    /\ UNCHANGED <<monthly_spending, bulk_load>>

\* material_delete (POST): the log row, then material.delete(); the store
\* cascades to the material's receipts and nulls the log rows' related_material
material_delete(m) ==
    /\ m \in materials
    /\ seq.activity <= MaxLog
    /\ activity_log' = SetNull(m.id, ActivityLog_create(m.project, "material_deleted",
                                                        0, activity_log))
    /\ materials' = materials \ {m}
    /\ receipts' = {r \in receipts : r.material_entry # m.id}
    /\ seq' = Bump("activity")
    /\ response' = "success"
    /\ UNCHANGED <<projects, labor, alerts, photos, pending, template_materials>>
    /\ UNCHANGED <<monthly_spending, bulk_load>>

\* update_material_usage (POST): MaterialUsageForm (min_value=0), then the
\* view's own check against material.quantity
update_material_usage(m, new_quantity_used) ==
    /\ m \in materials
    /\ seq.activity <= MaxLog
    /\ IF new_quantity_used >= 0 /\ ~(new_quantity_used > m.quantity)
       THEN /\ materials' = (materials \ {m}) \cup
                               {[m EXCEPT !.quantity_used = new_quantity_used]}
            /\ activity_log' = ActivityLog_create(m.project, "material_used", m.id,
                                                  activity_log)
            /\ seq' = Bump("activity")
            /\ response' = "success"
       ELSE /\ response' = "rejected"
            /\ UNCHANGED <<materials, activity_log, seq>>
    /\ UNCHANGED <<projects, labor, alerts, receipts, photos, pending, template_materials>>
    /\ UNCHANGED <<monthly_spending, bulk_load>>

\* quick_update_usage (POST)
quick_update_usage(m, quantity_used) ==
    /\ m \in materials
    /\ IF quantity_used < 0 \/ quantity_used > m.quantity
       THEN /\ response' = "rejected"
            /\ UNCHANGED materials
       ELSE /\ materials' = (materials \ {m}) \cup
                               {[m EXCEPT !.quantity_used = quantity_used]}
            /\ response' = "success"
    /\ UNCHANGED <<projects, labor, alerts, receipts, photos, activity_log,
                   pending, template_materials, seq>>
    /\ UNCHANGED <<monthly_spending, bulk_load>>

\* labor_create (POST)
labor_create(p, category, work_date, workers, rate) ==
    /\ p \in projects
    /\ seq.labor <= MaxLabor
    /\ IF LaborEntryForm_is_valid(workers, rate)
       THEN LET saved == LaborEntry_save(
                            [id |-> seq.labor, project |-> p.id,
                             category |-> category, work_date |-> work_date,
                             number_of_workers |-> workers,
                             rate_per_worker_per_day |-> rate], labor, projects)
            IN  /\ labor' = saved.labor
                /\ seq' = IF saved.raised THEN seq ELSE Bump("labor")
                /\ response' = IF saved.raised THEN "error" ELSE "success"
       ELSE /\ response' = "rejected"
            /\ UNCHANGED <<labor, seq>>
    /\ UNCHANGED <<projects, materials, alerts, receipts, photos, activity_log, pending, template_materials>>
    /\ UNCHANGED <<monthly_spending, bulk_load>>

\* labor_update (POST)
labor_update(l, category, work_date, workers, rate) ==
    /\ l \in labor
    /\ IF LaborEntryForm_is_valid(workers, rate)
       THEN LET saved == LaborEntry_save(
                            [l EXCEPT !.category = category, !.work_date = work_date,
                                      !.number_of_workers = workers,
                                      !.rate_per_worker_per_day = rate],
                            labor, projects)
            IN  /\ labor' = saved.labor
                /\ response' = IF saved.raised THEN "error" ELSE "success"
       ELSE /\ response' = "rejected"
            /\ UNCHANGED labor
    /\ UNCHANGED <<projects, materials, alerts, receipts, photos, activity_log,
                   pending, template_materials, seq>>
    /\ UNCHANGED <<monthly_spending, bulk_load>>

\* The first part of labor_create and labor_update, up to form.is_valid():
\* the instance that the second part will save
labor_is_valid(row, workers, rate) ==
    /\ Cardinality(pending) < MaxPending
    /\ IF LaborEntryForm_is_valid(workers, rate)
       THEN /\ pending' = pending \cup
                  {[id |-> CHOOSE i \in 1..MaxPending :
                              /\ \A q \in pending : q.id # i
                              /\ \A j \in 1..(i - 1) : \E q \in pending : q.id = j,
                    row |-> row]}
            /\ UNCHANGED response
       ELSE /\ response' = "rejected"
            /\ UNCHANGED pending
    /\ UNCHANGED <<projects, materials, labor, alerts, receipts, photos,
                   activity_log, template_materials, seq>>
    /\ UNCHANGED <<monthly_spending, bulk_load>>

\* labor_create (POST) up to form.save(commit=False); labor.project = project
labor_create_is_valid(p, category, work_date, workers, rate) ==
    /\ p \in projects
    /\ labor_is_valid([id |-> 0, project |-> p.id,
                       category |-> category, work_date |-> work_date,
                       number_of_workers |-> workers,
                       rate_per_worker_per_day |-> rate], workers, rate)

\* labor_update (POST) up to form.is_valid(), on the instance it has read
labor_update_is_valid(l, category, work_date, workers, rate) ==
    /\ l \in labor
    /\ labor_is_valid([l EXCEPT !.category = category, !.work_date = work_date,
                                !.number_of_workers = workers,
                                !.rate_per_worker_per_day = rate], workers, rate)

\* The second part of labor_create and labor_update: labor.save() / form.save()
labor_save(request) ==
    /\ request \in pending
    /\ request.row.id = 0 => seq.labor <= MaxLabor
    /\ LET isNew == request.row.id = 0
           saved == LaborEntry_save(
                       IF isNew THEN [request.row EXCEPT !.id = seq.labor]
                       ELSE request.row, labor, projects)
       IN  /\ labor' = saved.labor
           /\ seq' = IF isNew /\ ~saved.raised THEN Bump("labor") ELSE seq
           /\ response' = IF saved.raised THEN "error" ELSE "success"
    /\ pending' = pending \ {request}
    /\ UNCHANGED <<projects, materials, alerts, receipts, photos, activity_log,
                   template_materials>>
    /\ UNCHANGED <<monthly_spending, bulk_load>>

\* labor_delete (POST)
labor_delete(l) ==
    /\ l \in labor
    /\ labor' = labor \ {l}
    /\ response' = "success"
    /\ UNCHANGED <<projects, materials, alerts, receipts, photos, activity_log,
                   pending, template_materials, seq>>
    /\ UNCHANGED <<monthly_spending, bulk_load>>

\* mark_alert_read
mark_alert_read(a) ==
    /\ BagIn(a, alerts)
    /\ alerts' = (alerts (-) SetToBag({a})) (+) SetToBag({[a EXCEPT !.is_read = TRUE]})
    /\ response' = "success"
    /\ UNCHANGED <<projects, materials, labor, receipts, photos, activity_log,
                   pending, template_materials, seq>>
    /\ UNCHANGED <<monthly_spending, bulk_load>>

\* ---------------------------------------------------------------- receipts

\* material_entry.receipts
receipts_of(mid, recs) == {r \in recs : r.material_entry = mid}

\* material_entry.receipts.update(is_primary=False)
unset_primary(mid, recs) ==
    {IF r.material_entry = mid THEN [r EXCEPT !.is_primary = FALSE] ELSE r : r \in recs}

\* material_entry.has_receipt = material_entry.receipts.exists();
\* material_entry.save(update_fields=['has_receipt'])
save_has_receipt(mid, recs, mats) ==
    {IF m.id = mid THEN [m EXCEPT !.has_receipt = (receipts_of(mid, recs) # {})] ELSE m
       : m \in mats}

\* Receipt.save that leaves the siblings' flags alone
Receipt_save_keeps_siblings(self, rid, recs, mats) ==
    LET mid      == self.material_entry
        isNew    == self.id = 0
        primary  == IF isNew /\ receipts_of(mid, recs) = {} THEN TRUE ELSE self.is_primary
        row      == IF isNew
                    THEN [self EXCEPT !.id = rid, !.is_primary = primary, !.uploaded_at = rid]
                    ELSE self
        recs2    == {r \in recs : r.id # row.id} \cup {row}
    IN  [receipts |-> recs2, materials |-> save_has_receipt(mid, recs2, mats)]

\* Receipt.save that stores the requested flag of a first receipt
Receipt_save_first_as_requested(self, rid, recs, mats) ==
    LET mid      == self.material_entry
        isNew    == self.id = 0
        recs1    == IF isNew /\ self.is_primary THEN unset_primary(mid, recs) ELSE recs
        row      == IF isNew
                    THEN [self EXCEPT !.id = rid, !.uploaded_at = rid]
                    ELSE self
        recs2    == {r \in recs1 : r.id # row.id} \cup {row}
    IN  [receipts |-> recs2, materials |-> save_has_receipt(mid, recs2, mats)]

\* Receipt.save; self.id = 0 stands for an instance without a pk, which is
\* inserted under the key rid and stamped uploaded_at (auto_now_add)
Receipt_save(self, rid, recs, mats) ==
    LET mid      == self.material_entry
        isNew    == self.id = 0
        primary  == IF isNew /\ receipts_of(mid, recs) = {} THEN TRUE ELSE self.is_primary
        recs1    == IF isNew /\ primary THEN unset_primary(mid, recs) ELSE recs
        row      == IF isNew
                    THEN [self EXCEPT !.id = rid, !.is_primary = primary, !.uploaded_at = rid]
                    ELSE self
        recs2    == {r \in recs1 : r.id # row.id} \cup {row}
    IN  [receipts |-> recs2, materials |-> save_has_receipt(mid, recs2, mats)]

\* Meta.ordering = ['-is_primary', '-uploaded_at']
OrderedBefore(r1, r2) ==
    \/ r1.is_primary /\ ~r2.is_primary
    \/ r1.is_primary = r2.is_primary /\ r1.uploaded_at > r2.uploaded_at

\* queryset.first()
First(rows) == CHOOSE r \in rows : \A o \in rows \ {r} : OrderedBefore(r, o)

\* Receipt.delete that does not write has_receipt back
Receipt_delete_stale_flag(self, removed, recs, mats) ==
    LET mid   == self.material_entry
        recs1 == recs \ {self}
    IN  IF ~removed
        THEN [receipts |-> recs, materials |-> mats, raised |-> TRUE]
        ELSE IF self.is_primary /\ receipts_of(mid, recs1) # {}
        THEN LET saved == Receipt_save(First(receipts_of(mid, recs1)), 0, recs1, mats)
             IN  [receipts |-> saved.receipts, materials |-> saved.materials,
                  raised |-> FALSE]
        ELSE [receipts |-> recs1, materials |-> mats, raised |-> FALSE]

\* Receipt.delete; removed tells whether os.remove(self.file.path) went
\* through (or was not needed): when it raises, the method ends there
Receipt_delete(self, removed, recs, mats) ==
    LET mid   == self.material_entry
        recs1 == recs \ {self}
        mats1 == save_has_receipt(mid, recs1, mats)
    IN  IF ~removed
        THEN [receipts |-> recs, materials |-> mats, raised |-> TRUE]
        ELSE IF self.is_primary /\ receipts_of(mid, recs1) # {}
        THEN LET saved == Receipt_save(First(receipts_of(mid, recs1)), 0, recs1, mats1)
             IN  [receipts |-> saved.receipts, materials |-> saved.materials,
                  raised |-> FALSE]
        ELSE [receipts |-> recs1, materials |-> mats1, raised |-> FALSE]

\* ProjectPhoto.delete
ProjectPhoto_delete(self, removed, phs) ==
    IF ~removed THEN [photos |-> phs, raised |-> TRUE]
    ELSE [photos |-> phs \ {self}, raised |-> FALSE]

\* receipt_upload (POST)
receipt_upload(m, is_primary) ==
    /\ m \in materials
    /\ seq.receipt <= MaxReceipts
    /\ LET saved == Receipt_save([id |-> 0, material_entry |-> m.id,
                                  is_primary |-> is_primary, uploaded_at |-> 0],
                                 seq.receipt, receipts, materials)
       IN  /\ receipts' = saved.receipts
           /\ materials' = saved.materials
    /\ seq' = Bump("receipt")
    /\ response' = "success"
    /\ UNCHANGED <<projects, labor, alerts, photos, activity_log, pending, template_materials>>
    /\ UNCHANGED <<monthly_spending, bulk_load>>

\* receipt_set_primary
receipt_set_primary(receipt) ==
    /\ receipt \in receipts
    /\ LET saved == Receipt_save([receipt EXCEPT !.is_primary = TRUE], 0,
                                 unset_primary(receipt.material_entry, receipts),
                                 materials)
       IN  /\ receipts' = saved.receipts
           /\ materials' = saved.materials
    /\ response' = "success"
    /\ UNCHANGED <<projects, labor, alerts, photos, activity_log, pending, template_materials, seq>>
    /\ UNCHANGED <<monthly_spending, bulk_load>>

\* receipt_delete (POST)
receipt_delete(receipt, removed) ==
    /\ receipt \in receipts
    /\ LET deleted == Receipt_delete(receipt, removed, receipts, materials)
       IN  /\ receipts' = deleted.receipts
           /\ materials' = deleted.materials
           /\ response' = IF deleted.raised THEN "error" ELSE "success"
    /\ UNCHANGED <<projects, labor, alerts, photos, activity_log, pending, template_materials, seq>>
    /\ UNCHANGED <<monthly_spending, bulk_load>>

\* photo_upload (POST)
photo_upload(p) ==
    /\ p \in projects
    /\ seq.photo <= MaxPhotos
    /\ seq.activity <= MaxLog
    /\ photos' = photos \cup {[id |-> seq.photo, project |-> p.id]}
    /\ activity_log' = ActivityLog_create(p.id, "photo_uploaded", 0, activity_log)
    /\ seq' = [seq EXCEPT !.photo = @ + 1, !.activity = @ + 1]
    /\ response' = "success"
    /\ UNCHANGED <<projects, materials, labor, alerts, receipts, pending, template_materials>>
    /\ UNCHANGED <<monthly_spending, bulk_load>>

\* photo_delete (POST): the log row, then photo.delete()
photo_delete(photo, removed) ==
    /\ photo \in photos
    /\ seq.activity <= MaxLog
    /\ activity_log' = ActivityLog_create(photo.project, "photo_deleted", 0, activity_log)
    /\ seq' = Bump("activity")
    /\ LET deleted == ProjectPhoto_delete(photo, removed, photos)
       IN  /\ photos' = deleted.photos
           /\ response' = IF deleted.raised THEN "error" ELSE "success"
    /\ UNCHANGED <<projects, materials, labor, alerts, receipts, pending, template_materials>>
    /\ UNCHANGED <<monthly_spending, bulk_load>>

\* ------------------------------------------------------------ the machine

\* The store with no row but the project template
EmptyStore ==
    /\ projects = {}
    /\ materials = {}
    /\ labor = {}
    /\ alerts = EmptyBag
    /\ receipts = {}
    /\ photos = {}
    /\ activity_log = EmptyBag
    /\ template_materials = {}
    /\ pending = {}
    /\ response = "success"
    /\ seq = [project |-> 1, material |-> 1, labor |-> 1, receipt |-> 1,
              photo |-> 1, activity |-> 1, template_material |-> 1]
    /\ monthly_spending = <<>>
    /\ material_categories = {}
    /\ labor_categories = {}
    /\ material_units = {}
    /\ material_catalog = {}
    /\ summary = [created |-> 0, skipped |-> 0]

\* The store holds the projects 1..n of the given budget, as project_create
\* leaves them, and no other row
OnlyProjects(n, budget) ==
    /\ projects = {[id |-> i, budget |-> budget] : i \in 1..n}
    /\ materials = {}
    /\ labor = {}
    /\ alerts = EmptyBag
    /\ receipts = {}
    /\ photos = {}
    /\ activity_log = EmptyBag
    /\ template_materials = {}
    /\ pending = {}
    /\ response = "success"
    /\ seq = [project |-> n + 1, material |-> 1, labor |-> 1, receipt |-> 1,
              photo |-> 1, activity |-> 1, template_material |-> 1]
    /\ monthly_spending = <<>>
    /\ material_categories = {}
    /\ labor_categories = {}
    /\ material_units = {}
    /\ material_catalog = {}
    /\ summary = [created |-> 0, skipped |-> 0]

\* The budget machine: one project of any valid budget; material requests,
\* budget changes and alert reads
Init ==
    \E b \in {x \in BudgetInputs : ProjectForm_is_valid(x, 1, 0)} : OnlyProjects(1, b)

Next ==
    \/ \E p \in projects, b \in BudgetInputs :
          project_update(p, b, 1, 0)
    \/ \E p \in projects, c \in CostInputs, q \in QuantityInputs :
          material_create(p, c, q, 0)
    \/ \E m \in materials, c \in CostInputs, q \in QuantityInputs :
          material_update(m, c, q, m.quantity_used)
    \/ \E m \in materials : material_delete(m)
    \/ \E m \in materials, u \in UsedInputs : update_material_usage(m, u)
    \/ \E m \in materials, u \in UsedInputs : quick_update_usage(m, u)
    \/ \E a \in BagToSet(alerts) : mark_alert_read(a)

Spec == Init /\ [][Next]_vars

\* The labor machine: one project of budget 1000; labor requests next to
\* material purchases of 800 and budget changes
LaborInit == OnlyProjects(1, 1000)

LaborNext ==
    \/ \E p \in projects, b \in {x \in BudgetInputs : x >= 800} :
          project_update(p, b, 1, 0)
    \/ \E p \in projects : material_create(p, 800, 100, 0)
    \/ \E p \in projects, c \in Categories, d \in WorkDates,
          w \in WorkerInputs, r \in RateInputs : labor_create(p, c, d, w, r)
    \/ \E l \in labor, c \in Categories, d \in WorkDates,
          w \in WorkerInputs, r \in RateInputs : labor_update(l, c, d, w, r)
    \/ \E l \in labor : labor_delete(l)

LaborSpec == LaborInit /\ [][LaborNext]_vars

\* Labor requests that run side by side: each is two steps, its validation
\* and its save, and the steps of different requests interleave
LaborRaceNext ==
    \/ \E p \in projects, c \in Categories, d \in WorkDates,
          w \in WorkerInputs, r \in RateInputs \ {0} :
             labor_create_is_valid(p, c, d, w, r)
    \/ \E l \in labor, c \in Categories, d \in WorkDates,
          w \in WorkerInputs, r \in RateInputs \ {0} :
             labor_update_is_valid(l, c, d, w, r)
    \/ \E request \in pending : labor_save(request)
    \/ \E l \in labor : labor_delete(l)

LaborRaceSpec == LaborInit /\ [][LaborRaceNext]_vars

\* The usage machine: the requests that write quantity and quantity_used,
\* next to project updates
UsageNext ==
    \/ \E p \in projects, b \in ProjectBudgetInputs, s \in DateInputs,
          e \in DateInputs : project_update(p, b, s, e)
    \/ \E p \in projects, c \in CostInputs, q \in UsageQuantityInputs,
          u \in UsedInputs : material_create(p, c, q, u)
    \/ \E m \in materials, c \in CostInputs, q \in UsageQuantityInputs,
          u \in UsedInputs : material_update(m, c, q, u)
    \/ \E m \in materials, u \in UsedInputs : update_material_usage(m, u)
    \/ \E m \in materials, u \in UsedInputs : quick_update_usage(m, u)

UsageSpec == LaborInit /\ [][UsageNext]_vars

\* The project machine: the requests that create and change projects, from
\* an empty store
TemplateNext ==
    \/ \E q \in TemplateQuantityInputs, c \in CostInputs : template_add_material(q, c)
    \/ \E b \in ProjectBudgetInputs, s \in DateInputs, e \in DateInputs :
          project_create(b, s, e)
    \/ \E p \in projects, b \in ProjectBudgetInputs, s \in DateInputs,
          e \in DateInputs : project_update(p, b, s, e)
    \/ \E b \in ProjectBudgetInputs, s \in DateInputs :
          create_project_from_template(b, s)

TemplateSpec == EmptyStore /\ [][TemplateNext]_vars

\* The deletion machine: two projects that gather rows of every kind, and
\* the requests that delete
CascadeInit == OnlyProjects(2, 1000)

CascadeNext ==
    \/ \E p \in projects : material_create(p, 800, 100, 0)
    \/ \E p \in projects, c \in Categories :
          labor_create(p, c, 1, 2, 100)
    \/ \E p \in projects : photo_upload(p)
    \/ \E m \in materials : receipt_upload(m, FALSE)
    \/ \E ph \in photos, removed \in BOOLEAN : photo_delete(ph, removed)
    \/ \E m \in materials : material_delete(m)
    \/ \E p \in projects : project_delete(p)

CascadeSpec == CascadeInit /\ [][CascadeNext]_vars

\* The log machine: one project and every request on its entries, photos
\* and receipts, those that write the activity log and those that do not
LogNext ==
    \/ \E p \in projects : material_create(p, 800, 100, 0)
    \/ \E m \in materials : material_update(m, 800, 100, m.quantity_used)
    \/ \E m \in materials : update_material_usage(m, 100)
    \/ \E m \in materials : quick_update_usage(m, 100)
    \/ \E m \in materials : material_delete(m)
    \/ \E p \in projects, c \in Categories : labor_create(p, c, 1, 2, 100)
    \/ \E l \in labor : labor_update(l, l.category, 2, 2, 100)
    \/ \E l \in labor : labor_delete(l)
    \/ \E p \in projects : photo_upload(p)
    \/ \E ph \in photos, removed \in BOOLEAN : photo_delete(ph, removed)
    \/ \E m \in materials : receipt_upload(m, FALSE)
    \/ \E r \in receipts : receipt_delete(r, TRUE)
    \/ \E p \in projects : project_delete(p)

LogSpec == LaborInit /\ [][LogNext]_vars

\* The receipt machine: the store holds one project and two materials without
\* receipts, as two material_create requests of cost 0 leave it
ReceiptInit ==
    /\ projects = {[id |-> 1, budget |-> 1000]}
    /\ materials = {[id |-> i, project |-> 1, cost |-> 0, quantity |-> 100,
                     quantity_used |-> 0, has_receipt |-> FALSE] : i \in {1, 2}}
    /\ labor = {}
    /\ alerts = EmptyBag
    /\ receipts = {}
    /\ photos = {}
    /\ activity_log = [r \in {[project |-> 1, action |-> "material_added",
                                related_material |-> i] : i \in {1, 2}} |-> 1]
    /\ template_materials = {}
    /\ pending = {}
    /\ response = "success"
    /\ seq = [project |-> 2, material |-> 3, labor |-> 1, receipt |-> 1,
              photo |-> 1, activity |-> 3, template_material |-> 1]
    /\ monthly_spending = <<>>
    /\ material_categories = {}
    /\ labor_categories = {}
    /\ material_units = {}
    /\ material_catalog = {}
    /\ summary = [created |-> 0, skipped |-> 0]

ReceiptNext ==
    \/ \E m \in materials, b \in BOOLEAN : receipt_upload(m, b)
    \/ \E r \in receipts : receipt_set_primary(r)
    \/ \E r \in receipts, removed \in BOOLEAN : receipt_delete(r, removed)

ReceiptSpec == ReceiptInit /\ [][ReceiptNext]_vars

\* -------------------------------------------------------------- dashboard

\* A truncation that keeps the day
TruncMonth_to_day(d) == d

\* A date is 100 * (the number of its month, counted through the years) + the
\* day of the month.  TruncMonth: the first day of the date's month
TruncMonth(d) == (d \div 100) * 100 + 1

\* MaterialEntry...annotate(month=TruncMonth('purchase_date')).values('month')
\*   .annotate(material_cost=Sum('cost')): one row per month
materials_monthly(mats) ==
    {[month |-> mo,
      material_cost |-> SumCost({m \in mats : TruncMonth(m.purchase_date) = mo})]
       : mo \in {TruncMonth(m.purchase_date) : m \in mats}}

\* LaborEntry...annotate(month=TruncMonth('work_date')).values('month')
\*   .annotate(labor_cost=Sum(F('number_of_workers') * F('rate_per_worker_per_day')))
labor_monthly(labs) ==
    {[month |-> mo,
      labor_cost |-> SumTotalCost({l \in labs : TruncMonth(l.work_date) = mo})]
       : mo \in {TruncMonth(l.work_date) : l \in labs}}

\* monthly_map[month][field] = value on the defaultdict: a month that is not
\* in the map yet enters it with both costs 0
SetItem(map, month, field, value) ==
    LET data == IF month \in DOMAIN map THEN map[month]
                ELSE [material_cost |-> 0, labor_cost |-> 0]
    IN  [k \in DOMAIN map \cup {month} |->
            IF k = month THEN [data EXCEPT ![field] = value] ELSE map[k]]

RECURSIVE MergeRows(_, _, _)
\* for row in rows: monthly_map[row['month']][field] = row[field]
MergeRows(map, rows, field) ==
    IF rows = {} THEN map
    ELSE LET row == CHOOSE r \in rows : TRUE
         IN  MergeRows(SetItem(map, row.month, field, row[field]), rows \ {row}, field)

RECURSIVE SortedItems(_)
\* [{'month': month, ...} for month, data in sorted(monthly_map.items())]
SortedItems(map) ==
    IF DOMAIN map = {} THEN <<>>
    ELSE LET month == CHOOSE k \in DOMAIN map : \A o \in DOMAIN map : k <= o
         IN  <<[month |-> month,
                material_cost |-> map[month].material_cost,
                labor_cost |-> map[month].labor_cost]>>
             \o SortedItems([k \in DOMAIN map \ {month} |-> map[k]])

\* dashboard (GET): the monthly spending timeline of the user's entries
dashboard ==
    /\ monthly_spending' =
          SortedItems(MergeRows(MergeRows(<<>>, materials_monthly(materials),
                                          "material_cost"),
                                labor_monthly(labor), "labor_cost"))
    /\ response' = "success"
    /\ UNCHANGED <<projects, materials, labor, alerts, receipts, photos,
                   activity_log, template_materials, pending, seq, bulk_load>>

\* The dashboard machine: one project that holds any material entries and
\* labor entries of the dashboard dates, as material_create and labor_create
\* requests leave them (a material row here carries its purchase_date)
DashboardInit ==
    /\ projects = {[id |-> 1, budget |-> 1000]}
    /\ \E n \in 0..MaxEntries, k \in 0..MaxEntries :
          \E cost \in [1..n -> DashboardCosts], date \in [1..n -> DashboardDates] :
             /\ materials = {[id |-> i, project |-> 1, cost |-> cost[i],
                              quantity |-> 100, quantity_used |-> 0,
                              has_receipt |-> FALSE,
                              purchase_date |-> date[i]] : i \in 1..n}
             /\ activity_log = [r \in {[project |-> 1, action |-> "material_added",
                                         related_material |-> i] : i \in 1..n} |-> 1]
             /\ seq = [project |-> 2, material |-> n + 1, labor |-> k + 1,
                       receipt |-> 1, photo |-> 1, activity |-> n + 1,
                       template_material |-> 1]
             /\ \E rate \in [1..k -> DashboardRates],
                   work_date \in [1..k -> DashboardDates] :
                   /\ \A i \in 1..k, j \in 1..k : work_date[i] = work_date[j] => i = j
                   /\ labor = {[id |-> i, project |-> 1,
                                category |-> "mason",
                                work_date |-> work_date[i],
                                number_of_workers |-> 2,
                                rate_per_worker_per_day |-> rate[i]] : i \in 1..k}
    /\ alerts = EmptyBag
    /\ receipts = {}
    /\ photos = {}
    /\ template_materials = {}
    /\ pending = {}
    /\ response = "success"
    /\ monthly_spending = <<>>
    /\ material_categories = {}
    /\ labor_categories = {}
    /\ material_units = {}
    /\ material_catalog = {}
    /\ summary = [created |-> 0, skipped |-> 0]

DashboardNext == dashboard

DashboardSpec == DashboardInit /\ [][DashboardNext]_vars

\* ------------------------------------------------------------- bulk load

\* A text is a sequence of characters; None is what parse_line returns for a
\* line without a separator and what openpyxl gives for an empty cell
None == <<>>

RECURSIVE lstrip(_)
lstrip(s) == IF s # <<>> /\ Head(s) = " " THEN lstrip(Tail(s)) ELSE s

RECURSIVE rstrip(_)
rstrip(s) ==
    IF s # <<>> /\ s[Len(s)] = " " THEN rstrip(SubSeq(s, 1, Len(s) - 1)) ELSE s

\* str.strip()
strip(s) == rstrip(lstrip(s))

\* c in s
Contains(s, c) == \E i \in 1..Len(s) : s[i] = c

\* s.split(c, 1) for a c that is in s
split_once(s, c) ==
    LET i == CHOOSE k \in 1..Len(s) : s[k] = c /\ \A j \in 1..(k - 1) : s[j] # c
    IN  <<SubSeq(s, 1, i - 1), SubSeq(s, i + 1, Len(s))>>

\* Command.parse_line of the two category loaders
parse_line(line) ==
    IF Contains(line, "|")
    THEN LET p == split_once(line, "|") IN <<strip(p[1]), strip(p[2])>>
    ELSE IF Contains(line, ",")
    THEN LET p == split_once(line, ",") IN <<strip(p[1]), strip(p[2])>>
    ELSE None

RECURSIVE load_categories_from_text(_, _, _, _)
\* Command.load_from_text of load_material_categories and (the same code) of
\* load_labor_categories: the table and the counts after the lines
load_categories_from_text(lines, table, created, skipped) ==
    IF lines = <<>>
    THEN [table |-> table, summary |-> [created |-> created, skipped |-> skipped]]
    ELSE LET line  == strip(Head(lines))
             parts == parse_line(line)
         IN  IF line = <<>> \/ Head(line) = "#"
             THEN load_categories_from_text(Tail(lines), table, created, skipped)
             ELSE IF parts = None \/ Len(parts) < 2
             THEN load_categories_from_text(Tail(lines), table, created, skipped + 1)
             ELSE IF \E r \in table : r.key = parts[1]
             THEN load_categories_from_text(Tail(lines), table, created, skipped + 1)
             ELSE load_categories_from_text(Tail(lines),
                     table \cup {[key |-> parts[1], name |-> parts[2]]},
                     created + 1, skipped)

RECURSIVE load_categories_from_excel(_, _, _, _)
\* Command.load_from_excel of the two category loaders, over the rows that
\* sheet.iter_rows(min_row=2, values_only=True) gives
load_categories_from_excel(rows, table, created, skipped) ==
    IF rows = <<>>
    THEN [table |-> table, summary |-> [created |-> created, skipped |-> skipped]]
    ELSE LET row == Head(rows)
         IN  IF row = <<>> \/ row[1] = None \/ row[2] = None
             THEN load_categories_from_excel(Tail(rows), table, created, skipped)
             ELSE IF \E r \in table : r.key = strip(row[1])
             THEN load_categories_from_excel(Tail(rows), table, created, skipped + 1)
             ELSE load_categories_from_excel(Tail(rows),
                     table \cup {[key |-> strip(row[1]), name |-> strip(row[2])]},
                     created + 1, skipped)

\* Command.handle of a category loader on the table: the file's extension
\* picks the reader; the first row of a sheet is its header.  loaded is FALSE
\* when the command stops with an error message and reads nothing
load_categories(file, openpyxl, table) ==
    IF file.extension = ".txt"
    THEN [loaded |-> TRUE, result |-> load_categories_from_text(file.content, table, 0, 0)]
    ELSE IF file.extension \in {".xlsx", ".xls"} /\ openpyxl
    THEN [loaded |-> TRUE,
          result |-> load_categories_from_excel(Tail(file.content), table, 0, 0)]
    ELSE [loaded |-> FALSE, result |-> [table |-> table, summary |-> summary]]

\* manage.py load_material_categories file
load_material_categories(file, openpyxl) ==
    /\ LET run == load_categories(file, openpyxl, material_categories)
       IN  /\ material_categories' = run.result.table
           /\ summary' = run.result.summary
           /\ response' = IF run.loaded THEN "success" ELSE "rejected"
    /\ UNCHANGED <<projects, materials, labor, alerts, receipts, photos,
                   activity_log, template_materials, pending, seq,
                   monthly_spending, labor_categories, material_units,
                   material_catalog>>

\* manage.py load_labor_categories file
load_labor_categories(file, openpyxl) ==
    /\ LET run == load_categories(file, openpyxl, labor_categories)
       IN  /\ labor_categories' = run.result.table
           /\ summary' = run.result.summary
           /\ response' = IF run.loaded THEN "success" ELSE "rejected"
    /\ UNCHANGED <<projects, materials, labor, alerts, receipts, photos,
                   activity_log, template_materials, pending, seq,
                   monthly_spending, material_categories, material_units,
                   material_catalog>>

\* The files of up to MaxRows rows from the given rows
FilesOf(extension, rows, header) ==
    {[extension |-> extension, content |-> header \o content] :
        content \in UNION {[1..n -> rows] : n \in 0..MaxRows}}

\* The category files: text files and, with their header row, spreadsheets
CategoryFiles ==
    FilesOf(".txt", CategoryLines, <<>>)
      \cup FilesOf(".xlsx", CategoryRows, <<CategoryHeader>>)

\* The category machine: the labor category loader, run on any of the files
\* one after another, from an empty table, with openpyxl installed or not
CategoryLoadNext ==
    \E file \in CategoryFiles :
       \E openpyxl \in IF file.extension = ".txt" THEN {TRUE} ELSE BOOLEAN :
          load_labor_categories(file, openpyxl)

CategoryLoadSpec == EmptyStore /\ [][CategoryLoadNext]_vars

RECURSIVE split(_, _)
\* s.split(c)
split(s, c) ==
    IF ~Contains(s, c) THEN <<s>>
    ELSE LET p == split_once(s, c) IN <<p[1]>> \o split(p[2], c)

\* s[:n]
Prefix(s, n) == SubSeq(s, 1, IF Len(s) < n THEN Len(s) ELSE n)

RECURSIVE load_units_from_text(_, _, _, _)
\* Command.load_from_text of load_units: the table and the counts after the
\* lines; a line without a separator or without an abbreviation is loaded too
load_units_from_text(lines, table, created, skipped) ==
    IF lines = <<>>
    THEN [table |-> table, summary |-> [created |-> created, skipped |-> skipped]]
    ELSE LET line  == strip(Head(lines))
             parts == IF Contains(line, ",") THEN split(line, ",")
                      ELSE IF Contains(line, "|") THEN split(line, "|")
                      ELSE <<line, Prefix(line, 3)>>
             name  == strip(parts[1])
             abbreviation == IF Len(parts) >= 2 THEN strip(parts[2])
                             ELSE Prefix(name, 3)
         IN  IF line = <<>> \/ Head(line) = "#"
             THEN load_units_from_text(Tail(lines), table, created, skipped)
             ELSE IF \E r \in table : r.name = name
             THEN load_units_from_text(Tail(lines), table, created, skipped + 1)
             ELSE load_units_from_text(Tail(lines),
                     table \cup {[name |-> name, abbreviation |-> abbreviation]},
                     created + 1, skipped)

\* manage.py load_units file.txt
load_units(file) ==
    /\ file.extension = ".txt"
    /\ LET result == load_units_from_text(file.content, material_units, 0, 0)
       IN  /\ material_units' = result.table
           /\ summary' = result.summary
    /\ response' = "success"
    /\ UNCHANGED <<projects, materials, labor, alerts, receipts, photos,
                   activity_log, template_materials, pending, seq,
                   monthly_spending, material_categories, labor_categories,
                   material_catalog>>

\* The digits of a decimal number
Digits == {"0", "5"}

\* Decimal(text) of a text of digits: its value
RECURSIVE Decimal(_)
Decimal(text) ==
    IF text = <<>> THEN 0
    ELSE 10 * Decimal(SubSeq(text, 1, Len(text) - 1))
           + (IF text[Len(text)] = "5" THEN 5 ELSE 0)

\* MaterialCatalog.objects.create(category, description, default_unit,
\* default_cost): the cost goes through DecimalField.to_python, which raises
\* ValidationError for a text that is not a number
MaterialCatalog_create(category, description, unit, cost, catalog) ==
    IF cost # <<>> /\ \A i \in 1..Len(cost) : cost[i] \in Digits
    THEN [catalog |-> catalog \cup {[category |-> category, description |-> description,
                                     default_unit |-> unit,
                                     default_cost |-> Decimal(cost)]},
          raised |-> FALSE]
    ELSE [catalog |-> catalog, raised |-> TRUE]

RECURSIVE load_materials_from_text(_, _, _, _, _, _)
\* Command.load_from_text of load_materials: the catalog and the counts after
\* the lines, or the catalog as it is when a create raises (the rows
\* created before it stay; no summary is printed)
load_materials_from_text(lines, categories, units, catalog, created, skipped) ==
    IF lines = <<>>
    THEN [catalog |-> catalog, raised |-> FALSE,
          summary |-> [created |-> created, skipped |-> skipped]]
    ELSE LET line  == strip(Head(lines))
             split_parts == split(line, "|")
             parts == [i \in 1..Len(split_parts) |-> strip(split_parts[i])]
             cost  == IF Len(parts) > 3 THEN parts[4] ELSE <<"0">>
             unit  == IF \E u \in units : u.name = parts[3] THEN parts[3] ELSE None
             made  == MaterialCatalog_create(parts[1], parts[2], unit, cost, catalog)
         IN  IF line = <<>> \/ Head(line) = "#"
             THEN load_materials_from_text(Tail(lines), categories, units, catalog,
                                           created, skipped)
             ELSE IF Len(parts) < 3
             THEN load_materials_from_text(Tail(lines), categories, units, catalog,
                                           created, skipped + 1)
             ELSE IF ~\E c \in categories : c.key = parts[1]
             THEN load_materials_from_text(Tail(lines), categories, units, catalog,
                                           created, skipped + 1)
             ELSE IF \E r \in catalog :
                        r.category = parts[1] /\ r.description = parts[2]
             THEN load_materials_from_text(Tail(lines), categories, units, catalog,
                                           created, skipped + 1)
             ELSE IF made.raised
             THEN [catalog |-> catalog, raised |-> TRUE, summary |-> summary]
             ELSE load_materials_from_text(Tail(lines), categories, units,
                                           made.catalog, created + 1, skipped)

\* manage.py load_materials file.txt
load_materials(file) ==
    /\ file.extension = ".txt"
    /\ LET result == load_materials_from_text(file.content, material_categories,
                                              material_units, material_catalog, 0, 0)
       IN  /\ material_catalog' = result.catalog
           /\ summary' = result.summary
           /\ response' = IF result.raised THEN "error" ELSE "success"
    /\ UNCHANGED <<projects, materials, labor, alerts, receipts, photos,
                   activity_log, template_materials, pending, seq,
                   monthly_spending, material_categories, labor_categories,
                   material_units>>

\* The catalog machine: the three loaders of the material catalog's tables,
\* run on text files one after another, from empty tables
CatalogLoadNext ==
    \/ \E file \in FilesOf(".txt", CatalogCategoryLines, <<>>) :
          load_material_categories(file, TRUE)
    \/ \E file \in FilesOf(".txt", UnitLines, <<>>) : load_units(file)
    \/ \E file \in FilesOf(".txt", MaterialLines, <<>>) : load_materials(file)

CatalogLoadSpec == EmptyStore /\ [][CatalogLoadNext]_vars

\* ------------------------------------------------- interleaved requests

\* The key of a request that starts while others are in flight
FreeId ==
    CHOOSE i \in 1..(Cardinality(pending) + 1) : \A q \in pending : q.id # i

\* A request in flight: its view, the statement pc it has reached, the
\* instance row it holds in memory and the last value it has read
Begin(view, pc, row) ==
    pending' = pending \cup {[id |-> FreeId, view |-> view, pc |-> pc,
                               row |-> row, value |-> FALSE]}

Move(request, pc, row, value) ==
    pending' = (pending \ {request}) \cup
                  {[request EXCEPT !.pc = pc, !.row = row, !.value = value]}

\* The receipts that requests in flight have still to insert
Unsaved == {q \in pending : q.pc \in {"update", "save"} /\ q.row.id = 0}

\* receipt_upload (POST) up to the first read of Receipt.save:
\* if not self.material_entry.receipts.exists(): self.is_primary = True
receipt_upload_exists(m, is_primary) ==
    /\ m \in materials
    /\ Cardinality(pending) < MaxPending
    /\ seq.receipt + Cardinality(Unsaved) <= MaxReceipts
    /\ LET primary == IF receipts_of(m.id, receipts) = {} THEN TRUE ELSE is_primary
       IN  Begin("receipt_upload", IF primary THEN "update" ELSE "save",
                 [id |-> 0, material_entry |-> m.id, is_primary |-> primary,
                  uploaded_at |-> 0])
    /\ UNCHANGED <<projects, materials, labor, alerts, receipts, photos,
                   activity_log, template_materials, response, seq>>
    /\ UNCHANGED <<monthly_spending, bulk_load>>

\* receipt_set_primary up to receipt = get_object_or_404(Receipt, pk=pk); the
\* instance is marked is_primary = True in memory once the siblings are unset
receipt_set_primary_get(receipt) ==
    /\ receipt \in receipts
    /\ Cardinality(pending) < MaxPending
    /\ Begin("receipt_set_primary", "update", [receipt EXCEPT !.is_primary = TRUE])
    /\ UNCHANGED <<projects, materials, labor, alerts, receipts, photos,
                   activity_log, template_materials, response, seq>>
    /\ UNCHANGED <<monthly_spending, bulk_load>>

\* material_entry.receipts.update(is_primary=False), in Receipt.save of a new
\* primary receipt and in receipt_set_primary
receipts_update(request) ==
    /\ request \in pending
    /\ request.pc = "update"
    /\ receipts' = unset_primary(request.row.material_entry, receipts)
    /\ Move(request, "save", request.row, FALSE)
    /\ UNCHANGED <<projects, materials, labor, alerts, photos,
                   activity_log, template_materials, response, seq>>
    /\ UNCHANGED <<monthly_spending, bulk_load>>

\* super().save(): the INSERT of a new row, the UPDATE of every column of a
\* row that has a pk
Receipt_save_super(request) ==
    /\ request \in pending
    /\ request.pc = "save"
    /\ LET isNew == request.row.id = 0
           row   == IF isNew
                    THEN [request.row EXCEPT !.id = seq.receipt,
                                             !.uploaded_at = seq.receipt]
                    ELSE request.row
       IN  /\ receipts' = {r \in receipts : r.id # row.id} \cup {row}
           /\ seq' = IF isNew THEN Bump("receipt") ELSE seq
           /\ Move(request, "exists", row, FALSE)
    /\ UNCHANGED <<projects, materials, labor, alerts, photos,
                   activity_log, template_materials, response>>
    /\ UNCHANGED <<monthly_spending, bulk_load>>

\* self.material_entry.has_receipt = self.material_entry.receipts.exists()
Receipt_save_exists(request) ==
    /\ request \in pending
    /\ request.pc = "exists"
    /\ Move(request, "has_receipt", request.row,
            receipts_of(request.row.material_entry, receipts) # {})
    /\ UNCHANGED <<projects, materials, labor, alerts, receipts, photos,
                   activity_log, template_materials, response, seq>>
    /\ UNCHANGED <<monthly_spending, bulk_load>>

\* self.material_entry.save(update_fields=['has_receipt']), and the response
Receipt_save_has_receipt(request) ==
    /\ request \in pending
    /\ request.pc = "has_receipt"
    /\ materials' = {IF m.id = request.row.material_entry
                     THEN [m EXCEPT !.has_receipt = request.value] ELSE m
                       : m \in materials}
    /\ pending' = pending \ {request}
    /\ response' = "success"
    /\ UNCHANGED <<projects, labor, alerts, receipts, photos,
                   activity_log, template_materials, seq>>
    /\ UNCHANGED <<monthly_spending, bulk_load>>

\* The receipt race machine: receipt_upload and receipt_set_primary requests
\* that take one store statement per step, on the store of the receipt machine
ReceiptRaceNext ==
    \/ \E m \in materials, b \in BOOLEAN : receipt_upload_exists(m, b)
    \/ \E r \in receipts : receipt_set_primary_get(r)
    \/ \E request \in pending : receipts_update(request)
    \/ \E request \in pending : Receipt_save_super(request)
    \/ \E request \in pending : Receipt_save_exists(request)
    \/ \E request \in pending : Receipt_save_has_receipt(request)

ReceiptRaceSpec == ReceiptInit /\ [][ReceiptRaceNext]_vars

\* The requests in flight that have still to write their activity log row
ToLog == {q \in pending : q.view # "quick_update_usage" /\ q.pc \in {"save", "log"}}

\* material_create (POST) up to form.save(commit=False); material.project =
\* project; material.save()
material_create_save(p, cost, quantity, quantity_used) ==
    /\ p \in projects
    /\ Cardinality(pending) < MaxPending
    /\ seq.material <= MaxMaterials
    /\ seq.activity + Cardinality(ToLog) <= MaxLog
    /\ IF MaterialEntryForm_is_valid(cost, quantity, quantity_used)
       THEN LET row == [id |-> seq.material, project |-> p.id, cost |-> cost,
                        quantity |-> quantity, quantity_used |-> quantity_used,
                        has_receipt |-> FALSE]
            IN  /\ materials' = materials \cup {row}
                /\ seq' = Bump("material")
                /\ Begin("material_create", "log", row)
                /\ UNCHANGED response
       ELSE /\ response' = "rejected"
            /\ UNCHANGED <<materials, seq, pending>>
    /\ UNCHANGED <<projects, labor, alerts, receipts, photos, activity_log,
                   template_materials>>
    /\ UNCHANGED <<monthly_spending, bulk_load>>

\* material = get_object_or_404(MaterialEntry, pk=pk), the first statement of
\* material_update, update_material_usage and quick_update_usage
material_get(view, m) ==
    /\ m \in materials
    /\ Cardinality(pending) < MaxPending
    /\ view # "quick_update_usage" => seq.activity + Cardinality(ToLog) <= MaxLog
    /\ Begin(view, "save", m)
    /\ UNCHANGED <<projects, materials, labor, alerts, receipts, photos,
                   activity_log, template_materials, response, seq>>
    /\ UNCHANGED <<monthly_spending, bulk_load>>

\* Model.save() of an instance that has a pk: every column is written from
\* the instance in memory
MaterialEntry_save(row, mats) == {m \in mats : m.id # row.id} \cup {row}

\* material_update (POST): form.is_valid(), form.save()
material_update_save(request, cost, quantity, quantity_used) ==
    /\ request \in pending
    /\ request.view = "material_update" /\ request.pc = "save"
    /\ IF MaterialEntryForm_is_valid(cost, quantity, quantity_used)
       THEN LET row == [request.row EXCEPT !.cost = cost, !.quantity = quantity,
                                           !.quantity_used = quantity_used]
            IN  /\ materials' = MaterialEntry_save(row, materials)
                /\ Move(request, "log", row, FALSE)
                /\ UNCHANGED response
       ELSE /\ response' = "rejected"
            /\ pending' = pending \ {request}
            /\ UNCHANGED materials
    /\ UNCHANGED <<projects, labor, alerts, receipts, photos, activity_log,
                   template_materials, seq>>
    /\ UNCHANGED <<monthly_spending, bulk_load>>

\* update_material_usage (POST): the form, the view's check against
\* material.quantity, material.quantity_used = ...; material.save()
update_material_usage_save(request, new_quantity_used) ==
    /\ request \in pending
    /\ request.view = "update_material_usage" /\ request.pc = "save"
    /\ IF new_quantity_used >= 0 /\ ~(new_quantity_used > request.row.quantity)
       THEN LET row == [request.row EXCEPT !.quantity_used = new_quantity_used]
            IN  /\ materials' = MaterialEntry_save(row, materials)
                /\ Move(request, "log", row, FALSE)
                /\ UNCHANGED response
       ELSE /\ response' = "rejected"
            /\ pending' = pending \ {request}
            /\ UNCHANGED materials
    /\ UNCHANGED <<projects, labor, alerts, receipts, photos, activity_log,
                   template_materials, seq>>
    /\ UNCHANGED <<monthly_spending, bulk_load>>

\* quick_update_usage (POST): the range check, material.quantity_used = ...;
\* material.save(), and the response
quick_update_usage_save(request, quantity_used) ==
    /\ request \in pending
    /\ request.view = "quick_update_usage" /\ request.pc = "save"
    /\ IF quantity_used < 0 \/ quantity_used > request.row.quantity
       THEN /\ response' = "rejected"
            /\ UNCHANGED materials
       ELSE /\ materials' = MaterialEntry_save(
                               [request.row EXCEPT !.quantity_used = quantity_used],
                               materials)
            /\ response' = "success"
    /\ pending' = pending \ {request}
    /\ UNCHANGED <<projects, labor, alerts, receipts, photos, activity_log,
                   template_materials, seq>>
    /\ UNCHANGED <<monthly_spending, bulk_load>>

\* The action that each view writes to the activity log
LogAction ==
    [material_create |-> "material_added", material_update |-> "material_updated",
     update_material_usage |-> "material_used"]

\* ActivityLog.objects.create(...) of material_create, material_update and
\* update_material_usage; update_material_usage responds after it
ActivityLog_objects_create(request) ==
    /\ request \in pending
    /\ request.pc = "log"
    /\ activity_log' = ActivityLog_create(request.row.project, LogAction[request.view],
                                          request.row.id, activity_log)
    /\ seq' = Bump("activity")
    /\ IF request.view = "update_material_usage"
       THEN /\ pending' = pending \ {request}
            /\ response' = "success"
       ELSE /\ Move(request, "percentage", request.row, FALSE)
            /\ UNCHANGED response
    /\ UNCHANGED <<projects, materials, labor, alerts, receipts, photos,
                   template_materials>>
    /\ UNCHANGED <<monthly_spending, bulk_load>>

\* check_budget_alerts: percentage = project.budget_utilization_percentage
check_budget_alerts_percentage(request) ==
    /\ request \in pending
    /\ request.pc = "percentage"
    /\ LET percentage == budget_utilization_percentage(
                             ProjectOf(request.row.project), materials)
       IN  IF percentage.raised
           THEN /\ pending' = pending \ {request}
                /\ response' = "error"
           ELSE /\ Move(request, "exceeded", request.row, percentage)
                /\ UNCHANGED response
    /\ UNCHANGED <<projects, materials, labor, alerts, receipts, photos,
                   activity_log, template_materials, seq>>
    /\ UNCHANGED <<monthly_spending, bulk_load>>

\* The thresholds of check_budget_alerts and the order of its branches
Threshold == [exceeded |-> 100, critical |-> 90, warning |-> 75]

ElifOf == [exceeded |-> "critical", critical |-> "warning", warning |-> "return"]

CreateOf == [exceeded |-> "create_exceeded", critical |-> "create_critical",
             warning |-> "create_warning"]

TypeOf == [create_exceeded |-> "exceeded", create_critical |-> "critical",
           create_warning |-> "warning"]

\* check_budget_alerts: the condition of one branch,
\* percentage >= threshold and not project.budget_alerts.filter(...).exists()
check_budget_alerts_exists(request) ==
    /\ request \in pending
    /\ request.pc \in AlertTypes
    /\ LET t      == request.pc
           create == /\ DecimalGE(request.value, Threshold[t])
                     /\ ~alert_exists(ProjectOf(request.row.project), t, alerts)
       IN  IF create THEN /\ Move(request, CreateOf[t], request.row, request.value)
                          /\ UNCHANGED response
           ELSE IF ElifOf[t] = "return"
                THEN /\ pending' = pending \ {request}
                     /\ response' = "success"
           ELSE /\ Move(request, ElifOf[t], request.row, request.value)
                /\ UNCHANGED response
    /\ UNCHANGED <<projects, materials, labor, alerts, receipts, photos,
                   activity_log, template_materials, seq>>
    /\ UNCHANGED <<monthly_spending, bulk_load>>

\* check_budget_alerts: BudgetAlert.objects.create(...) of the branch taken,
\* and the response
BudgetAlert_objects_create(request) ==
    /\ request \in pending
    /\ request.pc \in DOMAIN TypeOf
    /\ LET created == BudgetAlert_create(ProjectOf(request.row.project),
                                         TypeOf[request.pc], request.value, alerts)
       IN  /\ alerts' = created.alerts
           /\ response' = IF created.raised THEN "error" ELSE "success"
    /\ pending' = pending \ {request}
    /\ UNCHANGED <<projects, materials, labor, receipts, photos,
                   activity_log, template_materials, seq>>
    /\ UNCHANGED <<monthly_spending, bulk_load>>

\* The alert race machine: material_create and material_update requests on
\* one project that take one store statement per step
AlertRaceNext ==
    \/ \E p \in projects, c \in {0, 800} : material_create_save(p, c, 100, 0)
    \/ \E m \in materials : material_get("material_update", m)
    \/ \E request \in pending, c \in {0, 800} :
          material_update_save(request, c, 100, 0)
    \/ \E request \in pending : ActivityLog_objects_create(request)
    \/ \E request \in pending : check_budget_alerts_percentage(request)
    \/ \E request \in pending : check_budget_alerts_exists(request)
    \/ \E request \in pending : BudgetAlert_objects_create(request)

AlertRaceSpec == LaborInit /\ [][AlertRaceNext]_vars

\* The flag race machine: one material; material_update, update_material_usage
\* and quick_update_usage requests that read the row in one step and save it
\* in a later one, among receipt uploads and deletions
FlagRaceNext ==
    \/ \E p \in projects : material_create(p, 0, 100, 0)
    \/ \E m \in materials,
          view \in {"material_update", "update_material_usage", "quick_update_usage"} :
          material_get(view, m)
    \/ \E request \in pending : material_update_save(request, 0, 100, 100)
    \/ \E request \in pending : update_material_usage_save(request, 100)
    \/ \E request \in pending : quick_update_usage_save(request, 100)
    \/ \E request \in pending : ActivityLog_objects_create(request)
    \/ \E request \in pending : check_budget_alerts_percentage(request)
    \/ \E request \in pending : check_budget_alerts_exists(request)
    \/ \E m \in materials : receipt_upload(m, FALSE)
    \/ \E r \in receipts : receipt_delete(r, TRUE)

FlagRaceSpec == LaborInit /\ [][FlagRaceNext]_vars

\* The frame machine: one project of budget 1000 and a template; every
\* request that changes a project's utilization or its alerts
FrameNext ==
    \/ template_add_material(100, 800)
    \/ \E b \in {100, 1000} : create_project_from_template(b, 1)
    \/ \E p \in projects : material_create(p, 800, 100, 0)
    \/ \E m \in materials : material_update(m, 800, 100, m.quantity_used)
    \/ \E p \in projects, b \in {80, 1000} : project_update(p, b, 1, 0)
    \/ \E m \in materials : material_delete(m)
    \/ \E m \in materials : update_material_usage(m, 100)
    \/ \E m \in materials : quick_update_usage(m, 100)
    \/ \E a \in BagToSet(alerts) : mark_alert_read(a)

FrameSpec == LaborInit /\ [][FrameNext]_vars

\* ------------------------------------------------------------- properties

\* The number of alerts of type t that project pid has in the alert table als
AlertCount(als, pid, t) ==
    LET rows == {a \in BagToSet(als) : a.project = pid /\ a.alert_type = t}
    IN  BagCardinality([a \in rows |-> CopiesIn(a, als)])

\* The steps that are a material_create or material_update of project p which
\* passed validation (the row is written)
MaterialWritten(p) ==
    \/ \E c \in CostInputs, q \in QuantityInputs :
          MaterialEntryForm_is_valid(c, q, 0) /\ material_create(p, c, q, 0)
    \/ \E m \in materials, c \in CostInputs, q \in QuantityInputs :
          /\ m.project = p.id
          /\ MaterialEntryForm_is_valid(c, q, m.quantity_used)
          /\ material_update(m, c, q, m.quantity_used)

\* The steps that are a successful labor_create or labor_update of project p
LaborWritten(p) ==
    /\ response' = "success"
    /\ \/ \E c \in Categories, d \in WorkDates, w \in WorkerInputs, r \in RateInputs :
             labor_create(p, c, d, w, r)
       \/ \E l \in labor, c \in Categories, d \in WorkDates,
             w \in WorkerInputs, r \in RateInputs :
             l.project = p.id /\ labor_update(l, c, d, w, r)

\* C1: in every reachable state each project has at most one BudgetAlert of
\* each alert_type, read or unread.
C1_AtMostOneAlertPerType ==
    \A p \in projects, t \in AlertTypes : AlertCount(alerts, p.id, t) <= 1

\* C1 witness: the project holds one exceeded alert, marked read, and a
\* critical alert recorded at 100% or more: the evaluator ran again at or above
\* 100% with the exceeded alert present, and added no second exceeded alert.
C1_Witness ==
    \E p \in projects, a \in BagToSet(alerts), c \in BagToSet(alerts) :
        /\ a.project = p.id /\ a.alert_type = "exceeded" /\ a.is_read
        /\ c.project = p.id /\ c.alert_type = "critical" /\ c.percentage >= 10000
        /\ AlertCount(alerts, p.id, "exceeded") = 1

\* A step creates exactly one alert for project pid, of type t, and keeps the rest
CreatesOne(pid, t) ==
    /\ BagCardinality(alerts') = BagCardinality(alerts) + 1
    /\ alerts \sqsubseteq alerts'
    /\ AlertCount(alerts', pid, t) = AlertCount(alerts, pid, t) + 1

\* C2: a call of check_budget_alerts creates at most one alert, in descending
\* severity: 'exceeded' if u >= 100 and there is none, otherwise 'critical' if
\* u >= 90 and there is none, otherwise 'warning' if u >= 75 and there is
\* none, otherwise nothing (u is the utilization after the material write).
C2_OneAlertBySeverity ==
    [][\A p \in projects :
         MaterialWritten(p) =>
           LET u == budget_utilization_percentage(p, materials')
           IN  IF DecimalGE(u, 100) /\ AlertCount(alerts, p.id, "exceeded") = 0
               THEN CreatesOne(p.id, "exceeded")
               ELSE IF DecimalGE(u, 90) /\ AlertCount(alerts, p.id, "critical") = 0
               THEN CreatesOne(p.id, "critical")
               ELSE IF DecimalGE(u, 75) /\ AlertCount(alerts, p.id, "warning") = 0
               THEN CreatesOne(p.id, "warning")
               ELSE alerts' = alerts]_vars

\* C3: a project's total_spent is the sum of its material costs plus the sum of
\* workers * rate over its labor entries.
C3_TotalSpentIsMaterialPlusLabor ==
    \A p \in projects :
        total_spent(p, materials) =
            SumCost(material_entries(p, materials))
              + SumTotalCost(labor_entries(p, labor))

\* The post-condition of C4 for project p in the state a step leaves
EvaluatedAfter(p) ==
    LET u == budget_utilization_percentage(p, materials')
    IN  /\ DecimalGE(u, 100) => AlertCount(alerts', p.id, "exceeded") >= 1
        /\ DecimalGE(u, 75) => \E t \in AlertTypes : AlertCount(alerts', p.id, t) >= 1

\* C4: right after every successful material_create, material_update,
\* labor_create and labor_update the project has an 'exceeded' alert if its
\* utilization is >= 100 and at least one alert if it is >= 75.
C4_AlertsEvaluatedAfterEveryWrite ==
    [][\A p \in projects :
         (MaterialWritten(p) \/ LaborWritten(p)) => EvaluatedAfter(p)]_vars

\* C5: with budget 1000 and no entries, a material of cost 800 gives
\* total_spent 800 and exactly one warning alert; then a labor entry of 2
\* workers at rate 100 gives total_spent 1000 and exactly one exceeded alert,
\* the warning alert still there once.
C5_Scenario ==
    [][\A p \in projects :
         /\ ( /\ p.budget = 1000
              /\ material_entries(p, materials) = {} /\ labor_entries(p, labor) = {}
              /\ budget_alerts(p, alerts) = {}
              /\ material_create(p, 800, 100, 0) )
            => /\ total_spent(p, materials') = 800
               /\ AlertCount(alerts', p.id, "warning") = 1
               /\ BagCardinality(alerts') = 1
         /\ ( /\ p.budget = 1000
              /\ \E m \in materials : material_entries(p, materials) = {m} /\ m.cost = 800
              /\ labor_entries(p, labor) = {}
              /\ AlertCount(alerts, p.id, "warning") = 1 /\ BagCardinality(alerts) = 1
              /\ \E c \in Categories, d \in WorkDates : labor_create(p, c, d, 2, 100) )
            => /\ total_spent(p, materials') = 1000
               /\ AlertCount(alerts', p.id, "exceeded") = 1
               /\ AlertCount(alerts', p.id, "warning") = 1
               /\ BagCardinality(alerts') = 2]_vars

\* The primary receipts of material mid
primary_receipts(mid, recs) == {r \in receipts_of(mid, recs) : r.is_primary}

\* C6: after a primary receipt is deleted while the material keeps receipts,
\* exactly one remaining receipt is primary: the first in the default ordering.
C6_DeletePromotesFirst ==
    [][\A r \in receipts :
         ( /\ receipt_delete(r, TRUE)
           /\ r.is_primary
           /\ receipts_of(r.material_entry, receipts \ {r}) # {} )
         => LET remaining == receipts_of(r.material_entry, receipts \ {r})
            IN  \E n \in receipts' :
                  /\ n.id = First(remaining).id
                  /\ primary_receipts(r.material_entry, receipts') = {n}]_vars

\* C7: in every reachable state of receipt_upload, receipt_set_primary and
\* receipt_delete requests every material has at most one primary receipt.
C7_AtMostOnePrimary ==
    \A m \in materials : Cardinality(primary_receipts(m.id, receipts)) <= 1

\* C7 witness: a material holds three receipts, and its one primary receipt is
\* neither the oldest nor the newest (the flag has moved between receipts).
C7_Witness ==
    \E m \in materials :
        /\ Cardinality(receipts_of(m.id, receipts)) >= 3
        /\ \E r \in primary_receipts(m.id, receipts) :
              /\ \E o \in receipts_of(m.id, receipts) : o.uploaded_at < r.uploaded_at
              /\ \E o \in receipts_of(m.id, receipts) : o.uploaded_at > r.uploaded_at

\* C8: on receipt creation, a first receipt is stored primary whatever was
\* requested; a receipt requested primary for a material that has receipts is
\* afterwards its only primary; one not requested primary leaves the flags
\* of the existing receipts as they were.
C8_UploadSetsPrimary ==
    [][\A m \in materials, requested \in BOOLEAN :
         receipt_upload(m, requested) =>
           \E n \in receipts' :
             /\ n.id = seq.receipt /\ n.material_entry = m.id
             /\ receipts_of(m.id, receipts) = {} => n.is_primary
             /\ (requested /\ receipts_of(m.id, receipts) # {})
                  => primary_receipts(m.id, receipts') = {n}
             /\ (~requested /\ receipts_of(m.id, receipts) # {})
                  => /\ ~n.is_primary
                     /\ receipts_of(m.id, receipts') \ {n} = receipts_of(m.id, receipts)]_vars

\* C8 witness: a material with two receipts whose older one is still primary
\* (the newer was uploaded without the flag), while the other material's only
\* receipt is primary.
C8_Witness ==
    \E m1 \in materials, m2 \in materials :
        /\ m1 # m2
        /\ \E a \in receipts, b \in receipts :
              /\ receipts_of(m1.id, receipts) = {a, b}
              /\ a.uploaded_at < b.uploaded_at /\ a.is_primary /\ ~b.is_primary
        /\ \E c \in receipts : receipts_of(m2.id, receipts) = {c} /\ c.is_primary

\* C9: in every reachable state of receipt uploads, set-primary requests and
\* deletions, has_receipt is true exactly when the material has a receipt.
C9_HasReceiptConsistent ==
    \A m \in materials : m.has_receipt <=> (receipts_of(m.id, receipts) # {})

\* C9 witness: one material lost all the receipts it was given (has_receipt
\* false again) while the other still holds one (has_receipt true).
C9_Witness ==
    /\ seq.receipt > Cardinality(receipts) + 1
    /\ \E m1 \in materials, m2 \in materials :
          /\ receipts_of(m1.id, receipts) = {} /\ ~m1.has_receipt
          /\ receipts_of(m2.id, receipts) # {} /\ m2.has_receipt

\* C10: budget_utilization_percentage never raises; it is 0 when budget = 0 and
\* (total_spent / budget) * 100 otherwise; a project with no entries has
\* total_spent = 0 and utilization 0.
C10_UtilizationTotal ==
    \A p \in projects :
        LET u == budget_utilization_percentage(p, materials)
        IN  /\ ~u.raised
            /\ p.budget = 0 => u.num = 0
            /\ p.budget # 0 => u.num * p.budget = 100 * total_spent(p, materials) * u.den
            /\ (material_entries(p, materials) = {} /\ labor_entries(p, labor) = {})
                  => total_spent(p, materials) = 0 /\ u.num = 0

\* C10 witness: a project whose budget is 0 has spent money, and a request that
\* evaluates its utilization (a material write) has run.
C10_Witness ==
    \E p \in projects :
        /\ p.budget = 0
        /\ total_spent(p, materials) > 0
        /\ \E m \in material_entries(p, materials) : m.cost > 0

\* The alert row a with its is_read flag turned over
Flip(a) == [a EXCEPT !.is_read = ~a.is_read]

\* C11: budget alerts are append-only while their project exists: no step of
\* the material requests, project_update, the usage updates or an alert
\* evaluation removes an alert or changes its project, alert_type or
\* percentage (is_read may change), and a type that already has an alert
\* gets no second one, whatever the utilization did in between.
C11_AlertsAppendOnly ==
    [][/\ \A a \in BagToSet(alerts) :
             CopiesIn(a, alerts) + CopiesIn(Flip(a), alerts)
               <= CopiesIn(a, alerts') + CopiesIn(Flip(a), alerts')
       /\ \A p \in projects, t \in AlertTypes :
             AlertCount(alerts, p.id, t) >= 1
               => AlertCount(alerts', p.id, t) = AlertCount(alerts, p.id, t)]_vars

\* C11 witness: the project's material was deleted (the log says so), its
\* utilization is back to 0, and the exceeded alert recorded before is
\* still there, once.
C11_Witness ==
    \E p \in projects :
        /\ \E row \in BagToSet(activity_log) :
              row.project = p.id /\ row.action = "material_deleted"
        /\ material_entries(p, materials) = {}
        /\ budget_utilization_percentage(p, materials).num = 0
        /\ AlertCount(alerts, p.id, "exceeded") = 1

\* Labor rows l1 and l2 have the same (project, category, work_date)
SameLaborKey(l1, l2) ==
    /\ l1.project = l2.project
    /\ l1.category = l2.category
    /\ l1.work_date = l2.work_date

\* C12: whatever way the validations and saves of labor_create and
\* labor_update requests interleave, every state holds at most one LaborEntry
\* per (project, category, work_date), and a save whose key another stored
\* entry already has fails and leaves the stored entries unchanged.
C12_LaborKeyUnique ==
    [][/\ \A l1 \in labor', l2 \in labor' : SameLaborKey(l1, l2) => l1 = l2
       /\ \A request \in pending :
             ( /\ labor_save(request)
               /\ \E l \in labor : l.id # request.row.id /\ SameLaborKey(l, request.row) )
             => labor' = labor /\ response' = "error"]_vars

\* C12 witness: of the requests validated side by side one has stored its
\* entry, a save has failed, and a further request for the stored key is
\* still waiting to save.
C12_Witness ==
    /\ response = "error"
    /\ Cardinality(labor) = 1
    /\ \E request \in pending, l \in labor :
          request.row.id = 0 /\ SameLaborKey(l, request.row)

\* C13: no labor entry with a non-positive daily rate (or with fewer than one
\* worker) is ever stored: labor_create and labor_update reject such a
\* submission and leave the stored labor entries unchanged.
C13_NoNonPositiveRate ==
    \A l \in labor : l.rate_per_worker_per_day > 0 /\ l.number_of_workers >= 1

\* C14: in every state reached through project_create, project_update and
\* create_project_from_template every project has budget >= 0 (a submission
\* with a negative budget creates or changes no project).
C14_BudgetNonNegative ==
    \A p \in projects : p.budget >= 0

\* The request would leave a quantity_used below 0 or above the quantity
OverUse(quantity, quantity_used) == quantity_used < 0 \/ quantity_used > quantity

\* C15: after any sequence of material_create, material_update,
\* update_material_usage and quick_update_usage requests every MaterialEntry
\* has 0 <= quantity_used <= quantity, and a request that would break this
\* is rejected and leaves the entries unchanged.
C15_UsedWithinQuantity ==
    [][/\ \A m \in materials' : 0 <= m.quantity_used /\ m.quantity_used <= m.quantity
       /\ \A c \in CostInputs, q \in UsageQuantityInputs, u \in UsedInputs :
             /\ \A p \in projects :
                   (OverUse(q, u) /\ material_create(p, c, q, u))
                     => materials' = materials /\ response' = "rejected"
             /\ \A m \in materials :
                   (OverUse(q, u) /\ material_update(m, c, q, u))
                     => materials' = materials /\ response' = "rejected"
       /\ \A m \in materials, u \in UsedInputs :
             ( /\ OverUse(m.quantity, u)
               /\ update_material_usage(m, u) \/ quick_update_usage(m, u) )
             => materials' = materials /\ response' = "rejected"]_vars

\* C15 witness: an entry is used up to its quantity of 200 through a usage
\* update, and the last request was rejected.
C15_Witness ==
    /\ response = "rejected"
    /\ \E m \in materials :
          /\ m.quantity = 200 /\ m.quantity_used = 200
          /\ \E row \in BagToSet(activity_log) :
                row.action = "material_used" /\ row.related_material = m.id

\* C16: for every MaterialEntry quantity_remaining + quantity_used = quantity,
\* and is_depleted is true if and only if quantity_remaining = 0.
C16_RemainingAndDepleted ==
    \A m \in materials :
        /\ quantity_remaining(m) + m.quantity_used = m.quantity
        /\ is_depleted(m) <=> (quantity_remaining(m) = 0)

\* No row of the store is created, changed or removed by the step
StoreUnchanged ==
    UNCHANGED <<projects, materials, labor, alerts, receipts, photos, activity_log>>

\* C17: a material or project submission that fails validation (quantity_used
\* above quantity, a quantity that is not positive, end_date before
\* start_date) commits nothing: no entity is created or changed, no
\* ActivityLog row is appended and no BudgetAlert is created.
C17_RejectedCommitsNothing ==
    [][/\ \A c \in CostInputs, q \in UsageQuantityInputs, u \in UsedInputs :
             (q <= 0 \/ u > q) =>
               /\ \A p \in projects :
                     material_create(p, c, q, u)
                       => StoreUnchanged /\ response' = "rejected"
               /\ \A m \in materials :
                     material_update(m, c, q, u)
                       => StoreUnchanged /\ response' = "rejected"
       /\ \A m \in materials, u \in UsedInputs :
             (u > m.quantity /\ update_material_usage(m, u))
               => StoreUnchanged /\ response' = "rejected"
       /\ \A p \in projects, b \in BudgetInputs, s \in DateInputs, e \in DateInputs :
             (e < s /\ project_update(p, b, s, e))
               => StoreUnchanged /\ response' = "rejected"]_vars

\* C17 witness: the store holds an entry that is used up, its usage is on the
\* log and an alert is recorded, and the last submission was rejected.
C17_Witness ==
    /\ response = "rejected"
    /\ alerts # EmptyBag
    /\ \E m \in materials :
          /\ m.quantity_used = m.quantity
          /\ \E row \in BagToSet(activity_log) : row.related_material = m.id

\* C18: when the BudgetAlert creation (or the ActivityLog write) fails during
\* material_create or material_update, the material write stays committed
\* and the request still answers with its success outcome.
C18_AuxiliaryFailureNotSurfaced ==
    [][\A p \in projects :
         ( /\ MaterialWritten(p)
           /\ check_budget_alerts(p, materials', alerts).raised )
         => /\ \E m \in materials' : m.project = p.id
            /\ BagCardinality(activity_log') = BagCardinality(activity_log) + 1
            /\ response' = "success"]_vars

\* C19: deleting a receipt always removes the record, also when removing the
\* stored file fails, and the material's has_receipt flag is updated.
C19_DeleteAlwaysRemovesRecord ==
    [][\A r \in receipts, removed \in BOOLEAN :
         receipt_delete(r, removed) =>
           /\ r \notin receipts'
           /\ \A m \in materials' :
                 m.id = r.material_entry
                   => (m.has_receipt <=> (receipts_of(m.id, receipts') # {}))]_vars

\* Some project has the key pid
ProjectExists(pid) == \E p \in projects : p.id = pid

\* C20: in every reachable state every MaterialEntry, LaborEntry,
\* ProjectPhoto, ActivityLog and BudgetAlert refers to an existing project and
\* every Receipt to an existing MaterialEntry: project_delete removes all the
\* rows of the project, material_delete all the receipts of the material.
C20_ReferentialIntegrity ==
    /\ \A m \in materials : ProjectExists(m.project)
    /\ \A l \in labor : ProjectExists(l.project)
    /\ \A ph \in photos : ProjectExists(ph.project)
    /\ \A row \in BagToSet(activity_log) : ProjectExists(row.project)
    /\ \A a \in BagToSet(alerts) : ProjectExists(a.project)
    /\ \A r \in receipts : \E m \in materials : m.id = r.material_entry

\* C20 witness: one of the two projects was deleted and took its labor entry
\* with it, while the other still holds a material with a receipt, a labor
\* entry, a photo, an alert and log rows.
C20_Witness ==
    /\ Cardinality(projects) = 1
    /\ seq.labor = 3 /\ Cardinality(labor) = 1
    /\ \E p \in projects :
          /\ \E m \in materials : m.project = p.id /\ receipts_of(m.id, receipts) # {}
          /\ \E l \in labor : l.project = p.id
          /\ \E ph \in photos : ph.project = p.id
          /\ \E a \in BagToSet(alerts) : a.project = p.id
          /\ \E row \in BagToSet(activity_log) : row.project = p.id

\* C21: the activity log is append-only: while its project exists, no step of
\* the material, usage, receipt, photo or labor requests removes a log row or
\* changes one of its fields (every row of the log is still there, as it was,
\* after the step).
C21_ActivityLogAppendOnly ==
    [][\A row \in BagToSet(activity_log) :
         (\E p \in projects' : p.id = row.project)
           => CopiesIn(row, activity_log) <= CopiesIn(row, activity_log')]_vars

\* The log row with its reference to a material set to NULL
Nulled(row) == [row EXCEPT !.related_material = 0]

\* C21, amended: while its project exists, no step removes a log row or
\* changes its project or action; a row's related_material changes only
\* when that material is deleted, and then to NULL.
C21_LogRowsKept ==
    [][\A row \in BagToSet(activity_log) :
         (\E p \in projects' : p.id = row.project)
           => IF \/ row.related_material = 0
                 \/ \E m \in materials' : m.id = row.related_material
              THEN CopiesIn(row, activity_log) <= CopiesIn(row, activity_log')
              ELSE /\ \E m \in materials : m.id = row.related_material
                   /\ CopiesIn(row, activity_log) + CopiesIn(Nulled(row), activity_log)
                        <= CopiesIn(Nulled(row), activity_log')]_vars

\* C21 witness: a material was added and then deleted, its project is still
\* there, and the log holds both rows, the first without its material.
C21_Witness ==
    \E added \in BagToSet(activity_log), deleted \in BagToSet(activity_log) :
        /\ added.action = "material_added" /\ added.related_material = 0
        /\ deleted.action = "material_deleted" /\ deleted.project = added.project
        /\ ProjectExists(added.project)
        /\ material_entries(ProjectOf(added.project), materials) = {}

\* The number of log rows of project pid in the log table log
LogCount(log, pid) ==
    LET rows == {r \in BagToSet(log) : r.project = pid}
    IN  BagCardinality([r \in rows |-> CopiesIn(r, log)])

\* The steps that are a mutating request on an entry of project p: a material
\* create, update or delete, a usage update of either kind, or a labor
\* create, update or delete
EntryMutation(p) ==
    \/ \E c \in CostInputs, q \in UsageQuantityInputs, u \in UsedInputs :
          material_create(p, c, q, u)
    \/ \E m \in material_entries(p, materials) :
          \/ \E c \in CostInputs, q \in UsageQuantityInputs, u \in UsedInputs :
                material_update(m, c, q, u)
          \/ material_delete(m)
          \/ \E u \in UsedInputs : update_material_usage(m, u)
          \/ \E u \in UsedInputs : quick_update_usage(m, u)
    \/ \E c \in Categories, d \in WorkDates, w \in WorkerInputs, r \in RateInputs :
          labor_create(p, c, d, w, r)
    \/ \E l \in labor_entries(p, labor) :
          \/ \E c \in Categories, d \in WorkDates, w \in WorkerInputs, r \in RateInputs :
                labor_update(l, c, d, w, r)
          \/ labor_delete(l)

MonthOf(d) == d \div 100

\* C23: the dashboard's monthly_spending has exactly one element for each
\* calendar month that holds a material purchase_date or a labor work_date,
\* in ascending month order; its material_cost is the sum of the month's
\* material costs and its labor_cost the sum of the month's workers * rate,
\* 0 for a side without entries in the month.
C23_MonthlySpendingMerged ==
    [][dashboard =>
         LET ms == monthly_spending'
         IN  /\ \A i \in 1..Len(ms), j \in 1..Len(ms) :
                   i < j => MonthOf(ms[i].month) < MonthOf(ms[j].month)
             /\ {MonthOf(ms[i].month) : i \in 1..Len(ms)}
                  = {MonthOf(m.purchase_date) : m \in materials}
                      \cup {MonthOf(l.work_date) : l \in labor}
             /\ \A i \in 1..Len(ms) :
                   /\ ms[i].material_cost =
                         SumCost({m \in materials :
                                    MonthOf(m.purchase_date) = MonthOf(ms[i].month)})
                   /\ ms[i].labor_cost =
                         SumTotalCost({l \in labor :
                                         MonthOf(l.work_date) = MonthOf(ms[i].month)})]_vars

\* C23 witness: the dashboard has shown two months, the first with the cost
\* of two material purchases of different days and no labor, the second
\* with labor cost only.
C23_Witness ==
    /\ Len(monthly_spending) = 2
    /\ monthly_spending[1].material_cost = 200 /\ monthly_spending[1].labor_cost = 0
    /\ monthly_spending[2].material_cost = 0 /\ monthly_spending[2].labor_cost = 200
    /\ \E m1 \in materials, m2 \in materials : m1.purchase_date # m2.purchase_date

\* The data rows of a file: the lines of a text file, the rows under the
\* header of a sheet
DataRows(file) ==
    IF file.extension = ".txt" THEN file.content ELSE Tail(file.content)

\* The fields a data row holds, blanks apart: the cells of a sheet row, the
\* parts of a line on either side of its first separator
Cells(file, row) ==
    IF file.extension # ".txt" THEN row
    ELSE LET t    == SelectSeq(row, LAMBDA c : c # " ")
             seps == {i \in 1..Len(t) : t[i] \in {"|", ","}}
         IN  IF seps = {} THEN <<t>>
             ELSE LET i == CHOOSE k \in seps : \A o \in seps : k <= o
                  IN  <<SubSeq(t, 1, i - 1), SubSeq(t, i + 1, Len(t))>>

\* A row is malformed when it does not hold both a key and a name
Malformed(cells) == Len(cells) < 2 \/ cells[1] = <<>> \/ cells[2] = <<>>

\* The malformed rows of a file, its rows with a key that the table or an
\* earlier row of the file already has, and its valid new rows
MalformedRows(file) ==
    {i \in 1..Len(DataRows(file)) : Malformed(Cells(file, DataRows(file)[i]))}

DuplicateRows(file, table) ==
    {i \in 1..Len(DataRows(file)) \ MalformedRows(file) :
        LET key == Cells(file, DataRows(file)[i])[1]
        IN  \/ \E r \in table : r.key = key
            \/ \E j \in 1..(i - 1) \ MalformedRows(file) :
                  Cells(file, DataRows(file)[j])[1] = key}

NewRows(file, table) ==
    (1..Len(DataRows(file)) \ MalformedRows(file)) \ DuplicateRows(file, table)

\* C24: the category loader, given a text file or a sheet that holds N valid
\* new rows, one row with a duplicate key and one malformed row (and no
\* comment line), reports created = N and skipped = 2, creates exactly the N
\* records, leaves the existing records as they are and creates no record
\* from the malformed row.
C24_CategoryLoaderCounts ==
    [][\A file \in CategoryFiles :
         ( /\ load_labor_categories(file, TRUE)
           /\ \A i \in 1..Len(DataRows(file)) : Head(DataRows(file)[i]) # "#"
           /\ Cardinality(MalformedRows(file)) = 1
           /\ Cardinality(DuplicateRows(file, labor_categories)) = 1 )
         => /\ summary' = [created |-> Cardinality(NewRows(file, labor_categories)),
                           skipped |-> 2]
            /\ labor_categories' =
                  labor_categories \cup
                    {[key  |-> Cells(file, DataRows(file)[i])[1],
                      name |-> Cells(file, DataRows(file)[i])[2]]
                       : i \in NewRows(file, labor_categories)}]_vars

RECURSIVE Join(_, _)
\* The line that holds the fields, separated by sep
Join(fields, sep) ==
    IF Len(fields) = 1 THEN fields[1]
    ELSE fields[1] \o <<sep>> \o Join(Tail(fields), sep)

\* The texts that the fields of a valid line are taken from
KeyTexts    == {<<"a">>, <<"b">>, <<"c">>, <<"q">>}
NameTexts   == {<<"x">>, <<"y">>, <<"k">>, <<"d">>, <<"e">>, <<"f">>, <<"u">>, <<"v">>}
NumberTexts == {<<"0">>, <<"5">>}

\* The line is a valid catalog line of category key and description: all of
\* category | description | unit, a number as its cost if it has one, and a
\* category that the table knows
ValidMaterialLine(line, key, description) ==
    /\ \E c \in material_categories : c.key = key
    /\ \E unit \in NameTexts :
          \/ line = Join(<<key, description, unit>>, "|")
          \/ \E cost \in NumberTexts : line = Join(<<key, description, unit, cost>>, "|")

\* The line is a valid line of two fields, the first of them being first
ValidPairLine(line, first) ==
    \E second \in NameTexts, sep \in {"|", ","} : line = Join(<<first, second>>, sep)

\* C25: in every bulk loader a malformed row (a missing field, an unknown
\* category key, a cost that is not a number) never aborts the batch: the
\* command runs to its end, every valid row of the file is in the table
\* afterwards, and no record is created from a row that is not valid.
C25_MalformedRowNeverAborts ==
    [][/\ \A file \in FilesOf(".txt", MaterialLines, <<>>) :
             load_materials(file) =>
               /\ response' = "success"
               /\ \A i \in 1..Len(file.content), key \in KeyTexts, d \in NameTexts :
                     ValidMaterialLine(file.content[i], key, d)
                       => \E r \in material_catalog' :
                             r.category = key /\ r.description = d
               /\ \A r \in material_catalog' \ material_catalog :
                     \E i \in 1..Len(file.content) :
                        ValidMaterialLine(file.content[i], r.category, r.description)
       /\ \A file \in FilesOf(".txt", UnitLines, <<>>) :
             load_units(file) =>
               /\ response' = "success"
               /\ \A i \in 1..Len(file.content), name \in NameTexts :
                     ValidPairLine(file.content[i], name)
                       => \E r \in material_units' : r.name = name
               /\ \A r \in material_units' \ material_units :
                     \E i \in 1..Len(file.content) :
                        ValidPairLine(file.content[i], r.name)
       /\ \A file \in FilesOf(".txt", CatalogCategoryLines, <<>>) :
             load_material_categories(file, TRUE) =>
               /\ response' = "success"
               /\ \A i \in 1..Len(file.content), key \in KeyTexts :
                     ValidPairLine(file.content[i], key)
                       => \E r \in material_categories' : r.key = key
               /\ \A r \in material_categories' \ material_categories :
                     \E i \in 1..Len(file.content) :
                        ValidPairLine(file.content[i], r.key)]_vars


\* C26: when receipt_upload and receipt_set_primary requests on one material
\* interleave at their single store reads and writes, every state in which
\* all of them have completed has at most one primary receipt per material.
C26_PrimaryUniqueUnderInterleaving ==
    pending = {} =>
        \A m \in materials : Cardinality(primary_receipts(m.id, receipts)) <= 1


\* C27: when material_create and material_update requests on one project
\* interleave at the existence check and the creation of check_budget_alerts,
\* the project never holds two alerts of one type.
C27_OneAlertPerTypeUnderInterleaving ==
    \A a \in BagToSet(alerts) : AlertCount(alerts, a.project, a.alert_type) = 1


\* C28: when a material_update, update_material_usage or quick_update_usage
\* request interleaves with a receipt upload or deletion on its material,
\* has_receipt still tells whether the material has a receipt once no request
\* is in flight: the save of the material writes no stale flag.
C28_HasReceiptUnderInterleaving ==
    pending = {} =>
        \A m \in materials : m.has_receipt = (receipts_of(m.id, receipts) # {})


\* C29: every stored BudgetAlert has a percentage (in hundredths) at or above
\* the threshold of its type, warning 75, critical 90, exceeded 100; and an
\* alert that a step creates records the project's utilization after that
\* step's write, as the column stores it.
C29_PercentageAtLeastThreshold ==
    /\ [](\A a \in BagToSet(alerts) :
            /\ a.alert_type = "warning"  => a.percentage >= 7500
            /\ a.alert_type = "critical" => a.percentage >= 9000
            /\ a.alert_type = "exceeded" => a.percentage >= 10000)
    /\ [][\A a \in BagToSet(alerts') :
            (~a.is_read /\ CopiesIn(a, alerts') > CopiesIn(a, alerts))
            => a.percentage = Quantize2(budget_utilization_percentage(
                                  ProjectOf(a.project), materials'))]_vars

\* C29 witness: the project holds a warning alert and a critical alert whose
\* percentage is not a whole number (800 of 850 is stored as 94.12).
C29_Witness ==
    \E a, b \in BagToSet(alerts) :
        /\ a.alert_type = "warning"
        /\ b.alert_type = "critical"
        /\ b.percentage % 100 # 0


\* The number of log rows of the given actions
ActionCount(log, actions) ==
    LET rows == {r \in BagToSet(log) : r.action \in actions}
    IN  BagCardinality([r \in rows |-> CopiesIn(r, log)])

\* The steps in which a material_create or material_update wrote its row:
\* they are the steps that log material_added or material_updated
WroteMaterial ==
    ActionCount(activity_log', {"material_added", "material_updated"})
       > ActionCount(activity_log, {"material_added", "material_updated"})

\* C30: a step that is not a material_create or material_update leaves the
\* alerts as they are, whatever it does to a project's utilization
\* (project_update, create_project_from_template, material_delete, the usage
\* updates), or is a mark_alert_read: then one alert has its is_read set and
\* nothing else in the store changes.
C30_OtherRequestsCreateNoAlert ==
    [][~WroteMaterial =>
         \/ alerts' = alerts
         \/ /\ \E a \in BagToSet(alerts) :
                  /\ ~a.is_read
                  /\ \A b \in BagToSet(alerts) \cup BagToSet(alerts') :
                        CopiesIn(b, alerts') =
                           CopiesIn(b, alerts)
                             - (IF b = a THEN 1 ELSE 0)
                             + (IF b = [a EXCEPT !.is_read = TRUE] THEN 1 ELSE 0)
            /\ UNCHANGED <<projects, materials, labor, receipts, photos,
                           activity_log, template_materials>>]_vars

\* C30 witness: a project made from a template is at or over its budget (its
\* copied material costs 800, its budget is 100) and has no alert.
C30_Witness ==
    \E p \in projects :
        /\ \E row \in BagToSet(activity_log) :
              row.project = p.id /\ row.action = "project_created"
        /\ DecimalGE(budget_utilization_percentage(p, materials), 100)
        /\ budget_alerts(p, alerts) = {}

====
